---- MODULE Spec2Model ----
(***************************************************************************)
(* Verification model of absctl's option models (internal/models):         *)
(* Backup.Validate, Restore.Validate, validateSingleFilter,                *)
(* validateFilePrefix, validatePartitionFilters, Restore.NamespaceConfig,  *)
(* Backup.Racks, Backup.ScanPolicy, Backup.PartitionFilters and            *)
(* parseLocalTimeToUTC; of the storage validation and the assembler of     *)
(* internal/config (ValidateStorages, NewBackupConfigs); of the restore    *)
(* file config and the secret resolution of internal/config/dto; of        *)
(* SecretAgent.Validate and SecretAgent.ToConfig; of App.PreRun and        *)
(* deferredCertValue of internal/flags; and of logging Config.Validate.    *)
(*                                                                         *)
(* The core is single-threaded and runs once per invocation: an option     *)
(* model is built (from flags or a YAML file), then one function is called *)
(* on it.  `call` names the function under study, `pc` is "start" before   *)
(* the call and "done" after it, and `err` holds the returned error.       *)
(*                                                                         *)
(* Strings that the code only compares with "" are kept as strings.  The   *)
(* output-file-prefix, which the code scans rune by rune, is a sequence of *)
(* Unicode code points.  `params` holds the receiver or argument of the    *)
(* other functions, `ret` the value they return next to the error.  For    *)
(* deferredCertValue, the one object with a state that outlives a call,    *)
(* `ret` is the object and `params` the values set on it so far.           *)
(***************************************************************************)
EXTENDS Integers, Sequences, FiniteSets, TLC

VARIABLES call, pc, b, r, partitionFilters, prefix, params, ret, err

vars == <<call, pc, b, r, partitionFilters, prefix, params, ret, err>>

----------------------------------------------------------------------------
(* Errors.  A Go error is modelled by its message, plus the values that    *)
(* validateFilePrefix formats into it (%c, %d, %q).  Nil is the nil error. *)

Nil == [msg |-> "<nil>", char |-> -1, pos |-> -1, arg |-> <<>>]

Errorf(m) == [msg |-> m, char |-> -1, pos |-> -1, arg |-> <<>>]

\* An error whose message formats a character, a position and further values.
ErrorfArgs(m, c, i, a) == [msg |-> m, char |-> c, pos |-> i, arg |-> a]

\* fmt.Errorf("<m>: %w", e)
Wrap(m, e) == [e EXCEPT !.msg = m \o ": " \o e.msg]

\* The value of `params` and of `ret` in a call that has no use for them.
Unused == [unused |-> TRUE]

\* A nil pointer, as an argument or returned in place of a value.
NilPtr == [nil |-> TRUE]

BoolToInt(x) == IF x THEN 1 ELSE 0

----------------------------------------------------------------------------
(* Bounds.                                                                 *)

\* A Backup under test has at most this many fields that differ from the
\* Go zero value.
MaxFlags == 5

\* Longest output-file-prefix, in runes, handed to validateFilePrefix alone.
MaxPrefixLen == 3

\* Partition filters: Begin in 0..MaxBegin, Count in -1..MaxCount, lists of
\* at most MaxFilters filters.
MaxBegin == 2

MaxCount == 2

MaxFilters == 3

----------------------------------------------------------------------------
(* validateFilePrefix                                                      *)

\* invalidChars := `\/:*?"<>|`
invalidChars == {92, 47, 58, 42, 63, 34, 60, 62, 124}

\* unicode.IsSpace, as used by strings.TrimSpace: in Latin-1 the characters
\* '\t' '\n' '\v' '\f' '\r' ' ' U+0085 U+00A0, beyond it the White_Space
\* property.
IsSpace(c) ==
    \/ c \in {9, 10, 11, 12, 13, 32, 133, 160}
    \/ c \in {5760, 8232, 8233, 8239, 8287, 12288}
    \/ (c >= 8192 /\ c <= 8202)

\* Bytes a rune takes in the UTF-8 encoded Go string: `range` reports byte
\* offsets.
RuneLen(c) == IF c < 128 THEN 1 ELSE IF c < 2048 THEN 2 ELSE IF c < 65536 THEN 3 ELSE 4

RECURSIVE TrimLeft(_)
TrimLeft(s) == IF s # <<>> /\ IsSpace(Head(s)) THEN TrimLeft(Tail(s)) ELSE s

RECURSIVE TrimRight(_)
TrimRight(s) ==
    IF s # <<>> /\ IsSpace(s[Len(s)]) THEN TrimRight(SubSeq(s, 1, Len(s) - 1)) ELSE s

TrimSpace(s) == TrimRight(TrimLeft(s))

\* The loop with the control-character bound off by one (char <= 32), which
\* takes the space for a control character.
RECURSIVE ScanPrefix_SpaceIsControl(_, _, _)
ScanPrefix_SpaceIsControl(p, k, i) ==
    IF k > Len(p) THEN Nil
    ELSE LET char == p[k] IN
         IF char \in invalidChars
           THEN ErrorfArgs("file prefix contains invalid character", char, i, p)
         ELSE IF char <= 32
           THEN ErrorfArgs("file prefix contains control character", char, i, p)
         ELSE IF char = 127
           THEN ErrorfArgs("file prefix contains DEL character", -1, i, p)
         ELSE ScanPrefix_SpaceIsControl(p, k + 1, i + RuneLen(char))

\* The loop `for i, char := range prefix`, from rune k at byte offset i.
\* Returns the first error of the loop, or Nil when the loop runs out.
RECURSIVE ScanPrefix(_, _, _)
ScanPrefix(p, k, i) ==
    IF k > Len(p) THEN Nil
    ELSE LET char == p[k] IN
         IF char \in invalidChars
           THEN ErrorfArgs("file prefix contains invalid character", char, i, p)
         ELSE IF char < 32
           THEN ErrorfArgs("file prefix contains control character", char, i, p)
         ELSE IF char = 127
           THEN ErrorfArgs("file prefix contains DEL character", -1, i, p)
         ELSE ScanPrefix(p, k + 1, i + RuneLen(char))

validateFilePrefix(p) ==
    IF p = <<>> THEN Nil
    ELSE LET e == ScanPrefix(p, 1, 0) IN
         IF e # Nil THEN e
         ELSE IF TrimSpace(p) # p
           THEN ErrorfArgs("file prefix cannot start or end with whitespace", -1, -1, p)
         ELSE Nil

----------------------------------------------------------------------------
(* Common.Validate                                                         *)

CommonValidate(c) ==
    IF c.Namespace = "" THEN Errorf("namespace is required") ELSE Nil

----------------------------------------------------------------------------
(* Backup                                                                  *)

\* strings.Join(elems, sep)
RECURSIVE Join(_, _)
Join(elems, sep) ==
    IF elems = <<>> THEN ""
    ELSE IF Len(elems) = 1 THEN elems[1]
    ELSE elems[1] \o sep \o Join(Tail(elems), sep)

\* validateSingleFilter with the threshold off by one (filtersSet > 2).
validateSingleFilter_MoreThanTwo(bk) ==
    LET s1 == IF bk.AfterDigest # "" THEN <<"after-digest">> ELSE <<>>
        s2 == IF bk.PartitionList # "" THEN Append(s1, "partition-list") ELSE s1
        s3 == IF bk.NodeList # "" THEN Append(s2, "node-list") ELSE s2
        setFilters == IF bk.RackList # "" THEN Append(s3, "rack-list") ELSE s3
        filtersSet == Len(setFilters)
    IN  IF filtersSet > 2
          THEN Errorf("only one of " \o Join(setFilters, " or ") \o " can be configured")
          ELSE Nil

validateSingleFilter(bk) ==
    LET s1 == IF bk.AfterDigest # "" THEN <<"after-digest">> ELSE <<>>
        s2 == IF bk.PartitionList # "" THEN Append(s1, "partition-list") ELSE s1
        s3 == IF bk.NodeList # "" THEN Append(s2, "node-list") ELSE s2
        setFilters == IF bk.RackList # "" THEN Append(s3, "rack-list") ELSE s3
        filtersSet == Len(setFilters)
    IN  IF filtersSet > 1
          THEN Errorf("only one of " \o Join(setFilters, " or ") \o " can be configured")
          ELSE Nil

\* Backup.Validate, lines 85-91: the output target.
CheckOutputTarget(bk) ==
    IF ~bk.Estimate /\ bk.OutputFile = "" /\ bk.Common.Directory = ""
      THEN Errorf("must specify either estimate, output-file or directory")
    ELSE IF bk.Common.Directory # "" /\ bk.OutputFile # ""
      THEN Errorf("only one of output-file and directory may be configured at the same time")
    ELSE Nil

\* Backup.Validate, lines 93-99: the output-file-prefix.
CheckOutputFilePrefix(bk) ==
    LET e == validateFilePrefix(bk.OutputFilePrefix) IN
    IF e # Nil THEN Wrap("invalid output-file-prefix", e)
    ELSE IF bk.OutputFile # "" /\ bk.OutputFilePrefix # <<>>
      THEN Errorf("using output-file-prefix is not allowed with output-file")
    ELSE Nil

\* The continue checks without the remove-files check.
CheckContinue_NoRemoveFiles(bk) ==
    IF bk.Continue # "" /\ bk.StateFileDst # ""
      THEN Errorf("continue and state-file-dst are mutually exclusive")
    ELSE Nil

\* Backup.Validate, lines 106-112: continue.
CheckContinue(bk) ==
    IF bk.Continue # "" /\ bk.StateFileDst # ""
      THEN Errorf("continue and state-file-dst are mutually exclusive")
    ELSE IF bk.Continue # "" /\ bk.RemoveFiles
      THEN Errorf("continue and remove-files are mutually exclusive, as remove-files will delete the backup files")
    ELSE Nil

\* Backup.Validate, lines 114-116: max-records.
CheckMaxRecords(bk) ==
    IF bk.MaxRecords # 0 /\ bk.Common.Parallel # 1
      THEN Errorf("max-records must be used with parallel = 1")
    ELSE Nil

\* The estimate block with the samples bound off by one (< -1).
CheckEstimate_SamplesOffByOne(bk) ==
    IF ~bk.Estimate THEN Nil
    ELSE IF \/ bk.PartitionList # ""
            \/ bk.NodeList # ""
            \/ bk.AfterDigest # ""
            \/ bk.FilterExpression # ""
            \/ bk.ModifiedAfter # ""
            \/ bk.ModifiedBefore # ""
            \/ bk.NoTTLOnly
      THEN Errorf("estimate with any filter is not allowed")
    ELSE IF bk.OutputFile # "" \/ bk.Common.Directory # ""
      THEN Errorf("estimate with output-file or directory is not allowed")
    ELSE IF bk.EstimateSamples < -1
      THEN Errorf("estimate with estimate-samples < 0 is not allowed")
    ELSE Nil

\* The estimate block without the output-file/directory check.
CheckEstimate_NoOutputCheck(bk) ==
    IF ~bk.Estimate THEN Nil
    ELSE IF \/ bk.PartitionList # ""
            \/ bk.NodeList # ""
            \/ bk.AfterDigest # ""
            \/ bk.FilterExpression # ""
            \/ bk.ModifiedAfter # ""
            \/ bk.ModifiedBefore # ""
            \/ bk.NoTTLOnly
      THEN Errorf("estimate with any filter is not allowed")
    ELSE IF bk.EstimateSamples < 0
      THEN Errorf("estimate with estimate-samples < 0 is not allowed")
    ELSE Nil

\* Backup.Validate, lines 118-137: the estimate block.
CheckEstimate(bk) ==
    IF ~bk.Estimate THEN Nil
    ELSE IF \/ bk.PartitionList # ""
            \/ bk.NodeList # ""
            \/ bk.AfterDigest # ""
            \/ bk.FilterExpression # ""
            \/ bk.ModifiedAfter # ""
            \/ bk.ModifiedBefore # ""
            \/ bk.NoTTLOnly
      THEN Errorf("estimate with any filter is not allowed")
    ELSE IF bk.OutputFile # "" \/ bk.Common.Directory # ""
      THEN Errorf("estimate with output-file or directory is not allowed")
    ELSE IF bk.EstimateSamples < 0
      THEN Errorf("estimate with estimate-samples < 0 is not allowed")
    ELSE Nil

\* The first error of a list of check results, Nil when there is none: the
\* `if err != nil { return err }` chain.
RECURSIVE FirstError(_)
FirstError(es) ==
    IF es = <<>> THEN Nil
    ELSE IF Head(es) # Nil THEN Head(es)
    ELSE FirstError(Tail(es))

\* Backup.Validate with the continue checks made before the single-filter
\* check.
BackupValidate_ContinueFirst(bk) ==
    FirstError(<< CheckOutputTarget(bk),
                  CheckOutputFilePrefix(bk),
                  CheckContinue(bk),
                  validateSingleFilter(bk),
                  CheckMaxRecords(bk),
                  CheckEstimate(bk),
                  CommonValidate(bk.Common) >>)

\* Backup.Validate on a non-nil receiver.
BackupValidate(bk) ==
    IF bk = NilPtr THEN Nil ELSE
    FirstError(<< CheckOutputTarget(bk),
                  CheckOutputFilePrefix(bk),
                  validateSingleFilter(bk),
                  CheckContinue(bk),
                  CheckMaxRecords(bk),
                  CheckEstimate(bk),
                  CommonValidate(bk.Common) >>)

----------------------------------------------------------------------------
(* Restore                                                                 *)

RestoreModeAuto == "auto"

RestoreModeASB == "asb"

RestoreModeASBX == "asbx"

\* Restore.Validate without the directory-list conflict check.
RestoreValidate_NoListConflict(rs) ==
    IF rs.Mode \notin {RestoreModeAuto, RestoreModeASB, RestoreModeASBX}
      THEN Errorf("invalid restore mode: " \o rs.Mode)
    ELSE IF rs.InputFile = "" /\ rs.Common.Directory = "" /\ rs.DirectoryList = ""
      THEN Errorf("input file or directory required")
    ELSE IF rs.Common.Directory # "" /\ rs.InputFile # ""
      THEN Errorf("only one of directory and input-file may be configured at the same time")
    ELSE IF rs.ParentDirectory # "" /\ rs.DirectoryList = ""
      THEN Errorf("must specify directory-list list")
    ELSE IF rs.WarmUp < 0
      THEN Errorf("warm-up must be non-negative")
    ELSE IF ~rs.ValidateOnly
      THEN CommonValidate(rs.Common)
    ELSE Nil

\* Restore.Validate with the validate-only condition inverted.
RestoreValidate_CommonWhenValidateOnly(rs) ==
    IF rs.Mode \notin {RestoreModeAuto, RestoreModeASB, RestoreModeASBX}
      THEN Errorf("invalid restore mode: " \o rs.Mode)
    ELSE IF rs.InputFile = "" /\ rs.Common.Directory = "" /\ rs.DirectoryList = ""
      THEN Errorf("input file or directory required")
    ELSE IF rs.Common.Directory # "" /\ rs.InputFile # ""
      THEN Errorf("only one of directory and input-file may be configured at the same time")
    ELSE IF rs.DirectoryList # "" /\ (rs.Common.Directory # "" \/ rs.InputFile # "")
      THEN Errorf("only one of directory, input-file and directory-list may be configured at the same time")
    ELSE IF rs.ParentDirectory # "" /\ rs.DirectoryList = ""
      THEN Errorf("must specify directory-list list")
    ELSE IF rs.WarmUp < 0
      THEN Errorf("warm-up must be non-negative")
    ELSE IF rs.ValidateOnly
      THEN CommonValidate(rs.Common)
    ELSE Nil

\* Restore.Validate on a non-nil receiver.
RestoreValidate(rs) ==
    IF rs = NilPtr THEN Nil
    ELSE IF rs.Mode \notin {RestoreModeAuto, RestoreModeASB, RestoreModeASBX}
      THEN Errorf("invalid restore mode: " \o rs.Mode)
    ELSE IF rs.InputFile = "" /\ rs.Common.Directory = "" /\ rs.DirectoryList = ""
      THEN Errorf("input file or directory required")
    ELSE IF rs.Common.Directory # "" /\ rs.InputFile # ""
      THEN Errorf("only one of directory and input-file may be configured at the same time")
    ELSE IF rs.DirectoryList # "" /\ (rs.Common.Directory # "" \/ rs.InputFile # "")
      THEN Errorf("only one of directory, input-file and directory-list may be configured at the same time")
    ELSE IF rs.ParentDirectory # "" /\ rs.DirectoryList = ""
      THEN Errorf("must specify directory-list list")
    ELSE IF rs.WarmUp < 0
      THEN Errorf("warm-up must be non-negative")
    ELSE IF ~rs.ValidateOnly
      THEN CommonValidate(rs.Common)
    ELSE Nil

----------------------------------------------------------------------------
(* validatePartitionFilters                                                *)

\* The first loop: filter k onwards, with the begin values seen so far for
\* count = 1 and the intervals collected so far for count > 1.
RECURSIVE ScanFilters(_, _, _, _)
ScanFilters(pf, k, beginMap, intervals) ==
    IF k > Len(pf) THEN [err |-> Nil, intervals |-> intervals]
    ELSE LET filter == pf[k] IN
         IF filter.Count = 1
           THEN IF filter.Begin \in beginMap
                  THEN [err |-> ErrorfArgs("duplicate begin value for count = 1",
                                           -1, -1, <<filter.Begin>>),
                        intervals |-> intervals]
                  ELSE ScanFilters(pf, k + 1, beginMap \cup {filter.Begin}, intervals)
         ELSE IF filter.Count > 1
           THEN ScanFilters(pf, k + 1, beginMap,
                            Append(intervals,
                                   <<filter.Begin, filter.Begin + filter.Count - 1>>))
         ELSE [err |-> ErrorfArgs("invalid partition filter count", -1, -1, <<filter.Count>>),
               intervals |-> intervals]

\* sort.Slice(intervals, less by [0]): sort.Slice is not stable, so every
\* arrangement of the intervals that is ordered by begin is a possible result.
SortSlice(intervals) ==
    { q \in { [i \in DOMAIN intervals |-> intervals[p[i]]] :
                  p \in Permutations(DOMAIN intervals) } :
        \A i \in DOMAIN q : \A j \in DOMAIN q : i < j => ~(q[j][1] < q[i][1]) }

\* The second loop with a strict comparison (currBegin < prevEnd), which
\* lets two intervals share an end point.
RECURSIVE ScanIntervals_Strict(_, _)
ScanIntervals_Strict(q, i) ==
    IF i > Len(q) THEN Nil
    ELSE LET prevEnd == q[i - 1][2]
             currBegin == q[i][1]
         IN  IF currBegin < prevEnd
               THEN ErrorfArgs("overlapping intervals", -1, -1,
                               <<q[i - 1][1], prevEnd, currBegin, q[i][2]>>)
               ELSE ScanIntervals_Strict(q, i + 1)

\* The second loop, from index i (1-based: i = 2 is Go's i = 1).
RECURSIVE ScanIntervals(_, _)
ScanIntervals(q, i) ==
    IF i > Len(q) THEN Nil
    ELSE LET prevEnd == q[i - 1][2]
             currBegin == q[i][1]
         IN  IF currBegin <= prevEnd
               THEN ErrorfArgs("overlapping intervals", -1, -1,
                               <<q[i - 1][1], prevEnd, currBegin, q[i][2]>>)
               ELSE ScanIntervals(q, i + 1)

\* The errors validatePartitionFilters can return for pf (one per possible
\* outcome of the sort).
validatePartitionFilters(pf) ==
    IF Len(pf) < 1 THEN {Nil}
    ELSE LET c == ScanFilters(pf, 1, {}, <<>>) IN
         IF c.err # Nil THEN {c.err}
         ELSE { ScanIntervals(q, 2) : q \in SortSlice(c.intervals) }

----------------------------------------------------------------------------
(* Inputs                                                                  *)

testNamespace == "test"

testDir == "test-dir"

testFile == "test-file"

\* The Go zero value of Backup (the fields Validate reads).
ZeroBackup ==
    [ Common |-> [Namespace |-> "", Directory |-> "", Parallel |-> 0],
      OutputFile |-> "", RemoveFiles |-> FALSE, ModifiedBefore |-> "",
      ModifiedAfter |-> "", AfterDigest |-> "", MaxRecords |-> 0,
      FilterExpression |-> "", NodeList |-> "", NoTTLOnly |-> FALSE,
      PartitionList |-> "", Estimate |-> FALSE, EstimateSamples |-> 0,
      StateFileDst |-> "", Continue |-> "", OutputFilePrefix |-> <<>>,
      RackList |-> "" ]

\* Fields with one value besides the zero value.
BackupFlags ==
    { "Namespace", "Directory", "OutputFile", "RemoveFiles", "ModifiedBefore",
      "ModifiedAfter", "AfterDigest", "MaxRecords", "FilterExpression", "NodeList",
      "NoTTLOnly", "PartitionList", "Estimate", "StateFileDst", "Continue", "RackList" }

Parallels == {0, 1, 10}

EstimateSampleValues == {-1, 0, 100}

\* "", "bk", "a/b", " b"
OutputFilePrefixes == { <<>>, <<98, 107>>, <<97, 47, 98>>, <<32, 98>> }

MkBackup(S, par, smp, pre) ==
    [ Common |-> [ Namespace |-> IF "Namespace" \in S THEN testNamespace ELSE "",
                   Directory |-> IF "Directory" \in S THEN testDir ELSE "",
                   Parallel |-> par ],
      OutputFile |-> IF "OutputFile" \in S THEN testFile ELSE "",
      RemoveFiles |-> "RemoveFiles" \in S,
      ModifiedBefore |-> IF "ModifiedBefore" \in S THEN "2024-12-31" ELSE "",
      ModifiedAfter |-> IF "ModifiedAfter" \in S THEN "2024-01-01" ELSE "",
      AfterDigest |-> IF "AfterDigest" \in S THEN "some-digest" ELSE "",
      MaxRecords |-> IF "MaxRecords" \in S THEN 10 ELSE 0,
      FilterExpression |-> IF "FilterExpression" \in S THEN "age > 25" ELSE "",
      NodeList |-> IF "NodeList" \in S THEN "node1,node2" ELSE "",
      NoTTLOnly |-> "NoTTLOnly" \in S,
      PartitionList |-> IF "PartitionList" \in S THEN "some-partition" ELSE "",
      Estimate |-> "Estimate" \in S,
      EstimateSamples |-> smp,
      StateFileDst |-> IF "StateFileDst" \in S THEN "state" ELSE "",
      Continue |-> IF "Continue" \in S THEN "state.json" ELSE "",
      OutputFilePrefix |-> pre,
      RackList |-> IF "RackList" \in S THEN "3,4" ELSE "" ]

NonZero(x, zero) == IF x = zero THEN 0 ELSE 1

\* Every Backup with at most MaxFlags fields off their zero value.
BackupInputs ==
    { MkBackup(c[1], c[2], c[3], c[4]) :
        c \in { d \in { S \in SUBSET BackupFlags : Cardinality(S) <= MaxFlags }
                      \X Parallels \X EstimateSampleValues \X OutputFilePrefixes :
                  Cardinality(d[1]) + NonZero(d[2], 0) + NonZero(d[3], 0)
                    + NonZero(d[4], <<>>) <= MaxFlags } }

ZeroRestore ==
    [ Common |-> [Namespace |-> "", Directory |-> "", Parallel |-> 0],
      InputFile |-> "", DirectoryList |-> "", ParentDirectory |-> "",
      WarmUp |-> 0, Mode |-> "", ValidateOnly |-> FALSE ]

RestoreInputs ==
    [ Common : [ Namespace : {"", testNamespace},
                 Directory : {"", "restore-dir"},
                 Parallel : {0} ],
      InputFile : {"", "backup.asb"},
      DirectoryList : {"", "dir1,dir2"},
      ParentDirectory : {"", "parent"},
      WarmUp : {-1, 0, 1},
      Mode : {RestoreModeAuto, RestoreModeASB, RestoreModeASBX, "invalid-mode", ""},
      ValidateOnly : BOOLEAN ]

\* A character of each class validateFilePrefix tells apart: the nine
\* invalid characters, NUL, tab, US (31), space, DEL, NBSP (U+00A0), and
\* 'a' '1' '.' '-' '_'.
PrefixChars == invalidChars \cup {0, 9, 31, 32, 127, 160, 97, 49, 46, 45, 95}

RECURSIVE SeqsUpTo(_, _)
SeqsUpTo(S, n) ==
    IF n = 0 THEN { <<>> }
    ELSE LET shorter == SeqsUpTo(S, n - 1) IN
         shorter \cup { Append(s, x) : s \in { t \in shorter : Len(t) = n - 1 }, x \in S }

PrefixInputs == SeqsUpTo(PrefixChars, MaxPrefixLen)

PartitionFilter == [Begin : 0..MaxBegin, Count : -1..MaxCount]

PartitionFilterInputs == SeqsUpTo(PartitionFilter, MaxFilters)

----------------------------------------------------------------------------
(* Restore.NamespaceConfig                                                 *)
(* The namespace option is split at commas, so it is a sequence of bytes.  *)

\* Longest namespace option handed to NamespaceConfig.
MaxNamespaceLen == 5

\* ','
Comma == 44

\* strings.Index(s, ","), counted from 1; 0 when s holds no comma.
RECURSIVE IndexComma(_, _)
IndexComma(s, i) ==
    IF i > Len(s) THEN 0
    ELSE IF s[i] = Comma THEN i
    ELSE IndexComma(s, i + 1)

\* strings.Split(s, ","): the fields between the commas, empty ones included.
RECURSIVE Split(_)
Split(s) ==
    LET m == IndexComma(s, 1) IN
    IF m = 0 THEN <<s>>
    ELSE <<SubSeq(s, 1, m - 1)>> \o Split(SubSeq(s, m + 1, Len(s)))

\* SplitByComma: nil for the empty string.
SplitByComma(s) == IF s = <<>> THEN <<>> ELSE Split(s)

\* The unexported helper that Restore calls.
splitByComma(s) == SplitByComma(s)

\* A variant that answers any list of two or more fields.
NamespaceConfig_AtLeastTwo(rs) ==
    LET nsArr == splitByComma(rs.Namespace) IN
    IF Len(nsArr) = 1 THEN [Source |-> nsArr[1], Destination |-> nsArr[1]]
    ELSE IF Len(nsArr) >= 2 THEN [Source |-> nsArr[1], Destination |-> nsArr[2]]
    ELSE NilPtr

NamespaceConfig(rs) ==
    LET nsArr == splitByComma(rs.Namespace) IN
    IF Len(nsArr) = 1 THEN [Source |-> nsArr[1], Destination |-> nsArr[1]]
    ELSE IF Len(nsArr) = 2 THEN [Source |-> nsArr[1], Destination |-> nsArr[2]]
    ELSE NilPtr

\* The bytes of the namespace options under test: 'a', 'b' and ','.
NamespaceChars == {97, 98, Comma}

NamespaceInputs ==
    { [Namespace |-> s] : s \in SeqsUpTo(NamespaceChars, MaxNamespaceLen) }

----------------------------------------------------------------------------
(* 64-bit arithmetic                                                       *)
(* A uint64 or int64 is four 16-bit limbs, least significant first; an     *)
(* int64 is in two's complement.  Multiplication wraps as Go's does.       *)

Limb == 65536

\* x * k limb by limb from limb i on, with `carry` coming in; the carry out
\* of the last limb is dropped.
RECURSIVE MulCarry(_, _, _, _)
MulCarry(x, k, i, carry) ==
    IF i > Len(x) THEN <<>>
    ELSE LET t == x[i] * k + carry IN
         <<t % Limb>> \o MulCarry(x, k, i + 1, t \div Limb)

\* x * k in the width of x.
Mul(x, k) == MulCarry(x, k, 1, 0)

Zero64 == <<0, 0, 0, 0>>

\* The 64-bit word of a small non-negative number.
Word(n) == <<n % Limb, n \div Limb, 0, 0>>

\* A variant that converts with 1000 * 1000.
MiBToBytes_Decimal(m) == Mul(Mul(m, 1000), 1000)

\* m * 1024 * 1024
MiBToBytes(m) == Mul(Mul(m, 1024), 1024)

----------------------------------------------------------------------------
(* Backup.Racks                                                            *)

IsDigit(c) == c \in 48..57

\* The value of a string of decimal digits.
RECURSIVE DecValue(_)
DecValue(s) ==
    IF s = <<>> THEN 0
    ELSE DecValue(SubSeq(s, 1, Len(s) - 1)) * 10 + (s[Len(s)] - 48)

\* strconv.Atoi for strings of at most nine digits: an optional sign, then
\* one or more digits.  Answers [val, err].
Atoi(s) ==
    LET body == IF s # <<>> /\ s[1] \in {43, 45} THEN Tail(s) ELSE s
        bad == ErrorfArgs("strconv.Atoi: parsing %q: invalid syntax", -1, -1, <<s>>)
    IN IF body = <<>> \/ \E i \in DOMAIN body : ~IsDigit(body[i])
       THEN [val |-> 0, err |-> bad]
       ELSE [val |-> IF s[1] = 45 THEN 0 - DecValue(body) ELSE DecValue(body),
             err |-> Nil]

MaxRack == 1000000

\* The loop of Racks from field i on; ids are the rack ids appended so far.
RECURSIVE ScanRacks(_, _, _)
ScanRacks(racksStringSlice, i, ids) ==
    IF i > Len(racksStringSlice) THEN [val |-> ids, err |-> Nil]
    ELSE LET a == Atoi(racksStringSlice[i]) IN
         IF a.err # Nil
         THEN [val |-> NilPtr, err |-> Wrap("failed to parse racks", a.err)]
         ELSE IF a.val < 0
         THEN [val |-> NilPtr,
               err |-> ErrorfArgs("rack id %d invalid, should be non-negative number",
                                  -1, -1, <<a.val>>)]
         ELSE IF a.val > MaxRack
         THEN [val |-> NilPtr,
               err |-> ErrorfArgs("rack id %d invalid, should not exceed %d",
                                  -1, -1, <<a.val, MaxRack>>)]
         ELSE ScanRacks(racksStringSlice, i + 1, Append(ids, a.val))

\* (b *Backup) Racks()
Racks(bk) == ScanRacks(SplitByComma(bk.RackList), 1, <<>>)

----------------------------------------------------------------------------
(* parseLocalTimeToUTC                                                     *)
(* Time strings are sequences of bytes.  A pattern is a sequence holding   *)
(* Digit where the expression has \d and the byte itself elsewhere.        *)

Digit == 0

\* ^\d{2}:\d{2}:\d{2}$
expTimeOnly == <<Digit, Digit, 58, Digit, Digit, 58, Digit, Digit>>

\* ^\d{4}-\d{2}-\d{2}$
expDateOnly == <<Digit, Digit, Digit, Digit, 45, Digit, Digit, 45, Digit, Digit>>

\* ^\d{4}-\d{2}-\d{2}_\d{2}:\d{2}:\d{2}$
expDateTime == expDateOnly \o <<95>> \o expTimeOnly

\* exp.MatchString(s), for the anchored patterns above.
MatchString(exp, s) ==
    /\ Len(s) = Len(exp)
    /\ \A i \in DOMAIN exp :
           IF exp[i] = Digit THEN IsDigit(s[i]) ELSE s[i] = exp[i]

\* n in decimal, zero-padded to w digits.
RECURSIVE Pad(_, _)
Pad(n, w) == IF w = 0 THEN <<>> ELSE Pad(n \div 10, w - 1) \o <<48 + (n % 10)>>

\* currentTime.Format("2006-01-02") of the date <<year, month, day>>.
FormatDate(d) == Pad(d[1], 4) \o <<45>> \o Pad(d[2], 2) \o <<45>> \o Pad(d[3], 2)

IsLeap(y) == y % 4 = 0 /\ (y % 100 # 0 \/ y % 400 = 0)

daysIn(m, y) ==
    IF m = 2 THEN (IF IsLeap(y) THEN 29 ELSE 28)
    ELSE IF m \in {4, 6, 9, 11} THEN 30
    ELSE 31

\* time.ParseInLocation("2006-01-02_15:04:05", v, location) for a v that
\* matches expDateTime: the fields are read, then checked for their range.
\* The value is the wall clock time in the local zone.
ParseInLocation(v) ==
    LET year == DecValue(SubSeq(v, 1, 4))
        month == DecValue(SubSeq(v, 6, 7))
        day == DecValue(SubSeq(v, 9, 10))
        hour == DecValue(SubSeq(v, 12, 13))
        min == DecValue(SubSeq(v, 15, 16))
        sec == DecValue(SubSeq(v, 18, 19))
        ok == [ val |-> [Year |-> year, Month |-> month, Day |-> day,
                         Hour |-> hour, Min |-> min, Sec |-> sec],
                err |-> Nil ]
        bad(what) == [ val |-> NilPtr,
                       err |-> ErrorfArgs("parsing time %q: " \o what \o " out of range",
                                          -1, -1, <<v>>) ]
    IN IF month < 1 \/ month > 12 THEN bad("month")
       ELSE IF hour >= 24 THEN bad("hour")
       ELSE IF min >= 60 THEN bad("minute")
       ELSE IF sec >= 60 THEN bad("second")
       ELSE IF day < 1 \/ day > daysIn(month, year) THEN bad("day")
       ELSE ok

\* A variant that returns the error of the parse as it is.
parseLocalTimeToUTC_UnwrappedParseError(timeString, today) ==
    LET known == \/ MatchString(expDateTime, timeString)
                 \/ MatchString(expTimeOnly, timeString)
                 \/ MatchString(expDateOnly, timeString)
        validTime ==
            IF MatchString(expDateTime, timeString) THEN timeString
            ELSE IF MatchString(expTimeOnly, timeString)
                THEN FormatDate(today) \o <<95>> \o timeString
            ELSE timeString \o <<95, 48, 48, 58, 48, 48, 58, 48, 48>>
        localTime == ParseInLocation(validTime)
    IN IF ~known
       THEN [ val |-> NilPtr,
              err |-> ErrorfArgs("unknown time format: %s", -1, -1, <<timeString>>) ]
       ELSE localTime

\* parseLocalTimeToUTC(timeString) on a day whose local date is `today`.
\* The value is the UTC instant of the wall clock time answered, in the
\* local zone.
parseLocalTimeToUTC(timeString, today) ==
    LET known == \/ MatchString(expDateTime, timeString)
                 \/ MatchString(expTimeOnly, timeString)
                 \/ MatchString(expDateOnly, timeString)
        validTime ==
            IF MatchString(expDateTime, timeString) THEN timeString
            ELSE IF MatchString(expTimeOnly, timeString)
                THEN FormatDate(today) \o <<95>> \o timeString
            ELSE timeString \o <<95, 48, 48, 58, 48, 48, 58, 48, 48>>
        localTime == ParseInLocation(validTime)
    IN IF ~known
       THEN [ val |-> NilPtr,
              err |-> ErrorfArgs("unknown time format: %s", -1, -1, <<timeString>>) ]
       ELSE IF localTime.err # Nil
       THEN [ val |-> NilPtr,
              err |-> [localTime.err EXCEPT
                          !.msg = "failed to parse time %s: " \o localTime.err.msg,
                          !.arg = <<timeString>> \o localTime.err.arg] ]
       ELSE localTime

----------------------------------------------------------------------------
(* Backup.ScanPolicy and Backup.PartitionFilters                           *)
(* The Backup option model of the assembler holds the rack list, the node  *)
(* list and the two time strings as sequences of bytes, 64-bit numbers as  *)
(* limbs, and the other strings as strings.  A function that answers a     *)
(* value and an error answers the record [val, err].                       *)

\* The filter expressions that aerospike.ExpFromBase64 refuses.
MalformedExpressions == {"invalid-exp"}

\* aerospike.ExpFromBase64(s)
ExpFromBase64(s) ==
    IF s \in MalformedExpressions
    THEN [val |-> NilPtr, err |-> Errorf("illegal base64 data")]
    ELSE [val |-> [Base64 |-> s], err |-> Nil]

\* aerospike.NewScanPolicy(): the fields ScanPolicy may change.
NewScanPolicy ==
    [ ReplicaPolicy |-> "library default", IncludeBinData |-> TRUE,
      FilterExpression |-> NilPtr ]

\* A variant in which prefer-racks wins over rack-list and node-list.
ReplicaPolicyOf_PreferRacksWins(bk, p) ==
    IF bk.PreferRacks # "" THEN "PREFER_RACK"
    ELSE IF bk.RackList # <<>> \/ bk.NodeList # <<>> THEN "MASTER"
    ELSE p.ReplicaPolicy

\* The two assignments to p.ReplicaPolicy, in their order.
ReplicaPolicyOf(bk, p) ==
    LET p1 == IF bk.PreferRacks # "" THEN "PREFER_RACK" ELSE p.ReplicaPolicy
    IN IF bk.RackList # <<>> \/ bk.NodeList # <<>> THEN "MASTER" ELSE p1

\* (b *Backup) ScanPolicy()
ScanPolicy(bk) ==
    LET p == [ NewScanPolicy EXCEPT
                 !.ReplicaPolicy = ReplicaPolicyOf(bk, NewScanPolicy),
                 !.IncludeBinData = IF bk.NoBins THEN FALSE ELSE @ ]
        exp == ExpFromBase64(bk.FilterExpression)
    IN IF bk.FilterExpression # "" /\ exp.err # Nil
       THEN [val |-> NilPtr, err |-> Wrap("failed to parse filter expression", exp.err)]
       ELSE IF bk.FilterExpression # ""
       THEN [val |-> [p EXCEPT !.FilterExpression = exp.val], err |-> Nil]
       ELSE [val |-> p, err |-> Nil]

\* The digests that backup.NewPartitionFilterAfterDigest refuses.
MalformedDigests == {"invalid-digest"}

\* backup.NewPartitionFilterAfterDigest(namespace, digest): one filter that
\* starts in the partition of the digest.
NewPartitionFilterAfterDigest(namespace, digest) ==
    IF digest \in MalformedDigests
    THEN [val |-> NilPtr, err |-> Errorf("failed to decode after-digest")]
    ELSE [val |-> [Begin |-> 1, Count |-> 1], err |-> Nil]

\* backup.NewPartitionFilterAll()
NewPartitionFilterAll == [Begin |-> 0, Count |-> 4096]

\* backup.ParsePartitionFilterListString(namespace, list) for the partition
\* lists under test: "1,2" and "1,1" are two partitions each, "0-3,2-2"
\* two ranges, anything else is refused.
ParsePartitionFilterListString(namespace, list) ==
    CASE list = "1,2" ->
           [val |-> <<[Begin |-> 1, Count |-> 1], [Begin |-> 2, Count |-> 1]>>,
            err |-> Nil]
      [] list = "1,1" ->
           [val |-> <<[Begin |-> 1, Count |-> 1], [Begin |-> 1, Count |-> 1]>>,
            err |-> Nil]
      [] list = "0-3,2-2" ->
           [val |-> <<[Begin |-> 0, Count |-> 3], [Begin |-> 2, Count |-> 2]>>,
            err |-> Nil]
      [] OTHER ->
           [val |-> NilPtr, err |-> Errorf("invalid partition filter")]

\* (b *Backup) resolveFilters()
resolveFilters(bk) ==
    IF bk.AfterDigest # ""
    THEN LET filter == NewPartitionFilterAfterDigest(bk.Namespace, bk.AfterDigest)
         IN IF filter.err # Nil
            THEN [val |-> NilPtr,
                  err |-> Wrap("failed to parse after digest filter", filter.err)]
            ELSE [val |-> <<filter.val>>, err |-> Nil]
    ELSE IF bk.PartitionList # ""
    THEN LET filters == ParsePartitionFilterListString(bk.Namespace, bk.PartitionList)
         IN IF filters.err # Nil
            THEN [val |-> NilPtr,
                  err |-> Wrap("failed to parse partition filter list", filters.err)]
            ELSE filters
    ELSE [val |-> <<NewPartitionFilterAll>>, err |-> Nil]

\* (b *Backup) PartitionFilters(): the outcomes it can have, one per error
\* that validatePartitionFilters can return.
PartitionFilters(bk) ==
    LET pf == resolveFilters(bk) IN
    IF pf.err # Nil THEN {[val |-> NilPtr, err |-> pf.err]}
    ELSE { IF e # Nil
           THEN [val |-> NilPtr,
                 err |-> Wrap("failed to validate partition filters", e)]
           ELSE [val |-> pf.val, err |-> Nil] :
             e \in validatePartitionFilters(pf.val) }

----------------------------------------------------------------------------
(* The assembler: NewBackupConfigs, newBackupConfig, newBackupXDRConfig    *)
(* A service config is [Backup, BackupXDR, NumCPU, Today]: the two option  *)
(* models (NilPtr when absent), what runtime.NumCPU() answers and the      *)
(* local date of time.Now().  The option models hold the fields that a     *)
(* branch or a conversion of the assembler reads, and Namespace and        *)
(* NoRecords of those it copies as they are.                               *)

StdPlaceholder == "-"

\* What a call answers that dereferences a nil option model.
Panic == [panic |-> "invalid memory address or nil pointer dereference"]

\* path.Join(dir, file) for clean elements: no trailing slash, no dot
\* element.
PathJoin(dir, file) ==
    IF dir = "" THEN file
    ELSE IF file = "" THEN dir
    ELSE dir \o "/" \o file

\* (p *BackupServiceConfig) IsXDR()
IsXDR(p) == p.BackupXDR # NilPtr /\ p.Backup = NilPtr

\* (p *BackupServiceConfig) IsStdout()
IsStdout(p) == p.Backup # NilPtr /\ p.Backup.OutputFile = StdPlaceholder

\* backup.NewDefaultBackupConfig(): the fields the assembler sets, at the
\* values the library gives them.
NewDefaultBackupConfig ==
    [ Namespace |-> "test", NoRecords |-> FALSE, FileLimit |-> Zero64,
      ParallelWrite |-> 1, ParallelRead |-> 1, Bandwidth |-> Zero64,
      MetricsEnabled |-> FALSE, RackList |-> NilPtr, StateFile |-> "",
      Continue |-> FALSE, PageSize |-> 0, NodeList |-> NilPtr,
      PartitionFilters |-> <<NewPartitionFilterAll>>,
      ScanPolicy |-> NewScanPolicy, ModBefore |-> NilPtr, ModAfter |-> NilPtr ]

\* A variant that reconfigures for stdout only, not for a single file.
BaseConfig_StdoutOnly(config) ==
    LET bk == config.Backup
        single == IsStdout(config)
    IN [ NewDefaultBackupConfig EXCEPT
           !.Namespace = bk.Namespace,
           !.NoRecords = bk.NoRecords,
           !.FileLimit = IF single THEN Zero64 ELSE MiBToBytes(bk.FileLimit),
           !.ParallelWrite = IF single THEN 1 ELSE bk.Parallel,
           !.ParallelRead = bk.Parallel,
           !.Bandwidth = MiBToBytes(bk.Bandwidth),
           !.MetricsEnabled = TRUE ]

\* The assignments of newBackupConfig up to the rack list.
BaseConfig(config) ==
    LET bk == config.Backup
        single == IsStdout(config) \/ bk.OutputFile # ""
    IN [ NewDefaultBackupConfig EXCEPT
           !.Namespace = bk.Namespace,
           !.NoRecords = bk.NoRecords,
           !.FileLimit = IF single THEN Zero64 ELSE MiBToBytes(bk.FileLimit),
           !.ParallelWrite = IF single THEN 1 ELSE bk.Parallel,
           !.ParallelRead = bk.Parallel,
           !.Bandwidth = MiBToBytes(bk.Bandwidth),
           !.MetricsEnabled = TRUE ]

\* A variant that raises the continue flag for a state file destination
\* too.
WithState_ContinueForDst(c, bk) ==
    LET c1 == IF bk.Continue # ""
              THEN [ c EXCEPT !.StateFile = PathJoin(bk.Directory, bk.Continue),
                              !.Continue = TRUE,
                              !.PageSize = bk.ScanPageSize ]
              ELSE c
    IN IF bk.StateFileDst # ""
       THEN [ c1 EXCEPT !.StateFile = PathJoin(bk.Directory, bk.StateFileDst),
                        !.Continue = TRUE,
                        !.PageSize = bk.ScanPageSize ]
       ELSE c1

\* The assignments made for the continue token and the state file.
WithState(c, bk) ==
    LET c1 == IF bk.Continue # ""
              THEN [ c EXCEPT !.StateFile = PathJoin(bk.Directory, bk.Continue),
                              !.Continue = TRUE,
                              !.PageSize = bk.ScanPageSize ]
              ELSE c
    IN IF bk.StateFileDst # ""
       THEN [ c1 EXCEPT !.StateFile = PathJoin(bk.Directory, bk.StateFileDst),
                        !.PageSize = bk.ScanPageSize ]
       ELSE c1

\* newBackupConfig(config) for a config with a Backup: the outcomes it can
\* have, one per outcome of PartitionFilters.
newBackupConfigOf(config) ==
    LET bk == config.Backup
        list == Racks(bk)
        sp == ScanPolicy(bk)
        before == parseLocalTimeToUTC(bk.ModifiedBefore, config.Today)
        after == parseLocalTimeToUTC(bk.ModifiedAfter, config.Today)
        c1 == BaseConfig(config)
        c2 == IF bk.RackList # <<>> THEN [c1 EXCEPT !.RackList = list.val] ELSE c1
        c3 == WithState(c2, bk)
        c4 == IF bk.NodeList # <<>>
              THEN [c3 EXCEPT !.NodeList = SplitByComma(bk.NodeList)]
              ELSE c3
        fail(e) == [val |-> NilPtr, err |-> e]
    IN IF bk.RackList # <<>> /\ list.err # Nil THEN {fail(list.err)}
       ELSE { IF pf.err # Nil THEN fail(pf.err)
              ELSE IF sp.err # Nil THEN fail(sp.err)
              ELSE IF bk.ModifiedBefore # <<>> /\ before.err # Nil
                  THEN fail(Wrap("failed to parse modified before date", before.err))
              ELSE IF bk.ModifiedAfter # <<>> /\ after.err # Nil
                  THEN fail(Wrap("failed to parse modified after date", after.err))
              ELSE [ val |-> [ c4 EXCEPT
                                 !.PartitionFilters = pf.val,
                                 !.ScanPolicy = sp.val,
                                 !.ModBefore = IF bk.ModifiedBefore # <<>>
                                               THEN before.val ELSE @,
                                 !.ModAfter = IF bk.ModifiedAfter # <<>>
                                              THEN after.val ELSE @ ],
                     err |-> Nil ] :
                pf \in PartitionFilters(bk) }

\* newBackupConfig(config): the first statement that reads config.Backup
\* panics when there is no Backup.
newBackupConfig(config) ==
    IF config.Backup = NilPtr THEN {Panic} ELSE newBackupConfigOf(config)

\* newBackupXDRConfig(config)
newBackupXDRConfig(config) ==
    [ FileLimit |-> MiBToBytes(config.BackupXDR.FileLimit),
      ParallelWrite |-> IF config.BackupXDR.ParallelWrite > 0
                        THEN config.BackupXDR.ParallelWrite
                        ELSE config.NumCPU,
      Namespace |-> config.BackupXDR.Namespace,
      EncoderType |-> "ASBX",
      MetricsEnabled |-> TRUE ]

\* The three values NewBackupConfigs returns.
Configs(backupConfig, backupXDRConfig, e) ==
    [backupConfig |-> backupConfig, backupXDRConfig |-> backupXDRConfig, err |-> e]

\* A variant that takes the XDR path whenever there is a BackupXDR.
NewBackupConfigs_XDRWhenPresent(serviceConfig) ==
    IF serviceConfig.BackupXDR # NilPtr
    THEN LET backupXDRConfig == newBackupXDRConfig(serviceConfig) IN
         { Configs([ NewDefaultBackupConfig EXCEPT
                       !.NoRecords = TRUE,
                       !.Namespace = backupXDRConfig.Namespace ],
                   backupXDRConfig, Nil) }
    ELSE { IF o = Panic THEN Panic
           ELSE IF o.err # Nil
           THEN Configs(NilPtr, NilPtr, Wrap("failed to map backup config", o.err))
           ELSE Configs(o.val, NilPtr, Nil) :
             o \in newBackupConfig(serviceConfig) }

\* A variant that returns the error of newBackupConfig as it is.
NewBackupConfigs_UnwrappedError(serviceConfig) ==
    IF IsXDR(serviceConfig)
    THEN LET backupXDRConfig == newBackupXDRConfig(serviceConfig) IN
         { Configs([ NewDefaultBackupConfig EXCEPT
                       !.NoRecords = TRUE,
                       !.Namespace = backupXDRConfig.Namespace ],
                   backupXDRConfig, Nil) }
    ELSE { IF o = Panic THEN Panic
           ELSE IF o.err # Nil
           THEN Configs(NilPtr, NilPtr, o.err)
           ELSE Configs(o.val, NilPtr, Nil) :
             o \in newBackupConfig(serviceConfig) }

\* NewBackupConfigs(serviceConfig, logger): the outcomes it can have.
NewBackupConfigs(serviceConfig) ==
    IF IsXDR(serviceConfig)
    THEN LET backupXDRConfig == newBackupXDRConfig(serviceConfig) IN
         { Configs([ NewDefaultBackupConfig EXCEPT
                       !.NoRecords = TRUE,
                       !.Namespace = backupXDRConfig.Namespace ],
                   backupXDRConfig, Nil) }
    ELSE { IF o = Panic THEN Panic
           ELSE IF o.err # Nil
           THEN Configs(NilPtr, NilPtr, Wrap("failed to map backup config", o.err))
           ELSE Configs(o.val, NilPtr, Nil) :
             o \in newBackupConfig(serviceConfig) }

----------------------------------------------------------------------------
(* Storage validation: validateStorages and ValidateStorages               *)
(* A storage option model is NilPtr or a record.  Local, AwsS3, GcpStorage *)
(* and StorageCommon are validated by code outside this model: what their  *)
(* own Validate answers is the field Verdict of the record (Nil when it    *)
(* accepts).                                                               *)

\* At most this many storage options differ from the baseline storages.
MaxStorageFlags == 3

\* local.Validate(isBackup)
LocalValidate(l, isBackup) == l.Verdict

\* awsS3.Validate(isBackup)
AwsS3Validate(a, isBackup) == a.Verdict

\* gcpStorage.Validate(isBackup)
GcpStorageValidate(g, isBackup) == g.Verdict

\* a.StorageCommon.Validate(isBackup)
StorageCommonValidate(c, isBackup) == c.Verdict

\* A variant that lets an empty endpoint pass.
AzureBlobValidate_NoEndpointCheck(a, isBackup) ==
    IF a.ContainerName = "" THEN Errorf("container name is required")
    ELSE IF a.RetryMaxAttempts < 0
        THEN Errorf("retry maximum attempts must be non-negative")
    ELSE IF a.RetryDelay < 0 THEN Errorf("retry delay must be non-negative")
    ELSE IF a.RetryMaxDelay < 0
        THEN Errorf("retry max delay must be non-negative")
    ELSE IF isBackup /\ a.BlockSize < 1
        THEN Errorf("block size can't be less than 1")
    ELSE IF isBackup /\ a.UploadConcurrency < 1
        THEN Errorf("upload concurrency can't be less than 1")
    ELSE IF ~isBackup /\ a.RestorePollDuration < 1
        THEN Errorf("restore poll duration can't be less than 1")
    ELSE StorageCommonValidate(a.StorageCommon, isBackup)

\* (a *AzureBlob) Validate(isBackup)
AzureBlobValidate(a, isBackup) ==
    IF a = NilPtr THEN Panic
    ELSE IF a.ContainerName = "" THEN Errorf("container name is required")
    ELSE IF a.Endpoint = "" THEN Errorf("endpoint is required")
    ELSE IF a.RetryMaxAttempts < 0
        THEN Errorf("retry maximum attempts must be non-negative")
    ELSE IF a.RetryDelay < 0 THEN Errorf("retry delay must be non-negative")
    ELSE IF a.RetryMaxDelay < 0
        THEN Errorf("retry max delay must be non-negative")
    ELSE IF isBackup /\ a.BlockSize < 1
        THEN Errorf("block size can't be less than 1")
    ELSE IF isBackup /\ a.UploadConcurrency < 1
        THEN Errorf("upload concurrency can't be less than 1")
    ELSE IF ~isBackup /\ a.RestorePollDuration < 1
        THEN Errorf("restore poll duration can't be less than 1")
    ELSE StorageCommonValidate(a.StorageCommon, isBackup)

\* awsS3 != nil && (BucketName, Region, Profile or Endpoint is set)
AwsS3IsConfigured(a) ==
    /\ a # NilPtr
    /\ (a.BucketName # "" \/ a.Region # "" \/ a.Profile # "" \/ a.Endpoint # "")

\* gcpStorage != nil && (BucketName, KeyFile or Endpoint is set)
GcpStorageIsConfigured(g) ==
    /\ g # NilPtr
    /\ (g.BucketName # "" \/ g.KeyFile # "" \/ g.Endpoint # "")

\* A variant that takes every non-nil Azure option model as configured.
AzureBlobIsConfigured_NonNil(a) == a # NilPtr

\* (a *AzureBlob) IsConfigured()
AzureBlobIsConfigured(a) ==
    /\ a # NilPtr
    /\ (a.ContainerName # "" \/ a.AccountName # "" \/ a.AccountKey # ""
        \/ a.Endpoint # "" \/ a.TenantID # "" \/ a.ClientID # ""
        \/ a.ClientSecret # "")

\* The body both copies share: localErr, awsErr, gcpErr and azureErr are
\* what the Validate calls answered (Nil for a call that was not made),
\* count is the number of providers counted.
StoragesVerdict(localErr, awsErr, gcpErr, azureErr, count) ==
    IF localErr # Nil THEN Wrap("failed to validate local storage", localErr)
    ELSE IF awsErr # Nil THEN Wrap("failed to validate aws s3", awsErr)
    ELSE IF gcpErr # Nil THEN Wrap("failed to validate gcp storage", gcpErr)
    ELSE IF azureErr # Nil THEN Wrap("failed to validate azure blob", azureErr)
    ELSE IF count > 1 THEN Errorf("only one cloud provider can be configured")
    ELSE Nil

\* A provider's Validate runs only if every earlier Validate passed; an
\* earlier error has been returned by then, so running it here changes
\* nothing.
validateStorages(isBackup, awsS3, gcpStorage, azureBlob, local) ==
    LET awsOn == AwsS3IsConfigured(awsS3)
        gcpOn == GcpStorageIsConfigured(gcpStorage)
        azureOn == AzureBlobIsConfigured(azureBlob)
    IN StoragesVerdict(
           IF local # NilPtr THEN LocalValidate(local, isBackup) ELSE Nil,
           IF awsOn THEN AwsS3Validate(awsS3, isBackup) ELSE Nil,
           IF gcpOn THEN GcpStorageValidate(gcpStorage, isBackup) ELSE Nil,
           IF azureOn THEN AzureBlobValidate(azureBlob, isBackup) ELSE Nil,
           BoolToInt(awsOn) + BoolToInt(gcpOn) + BoolToInt(azureOn))

\* The exported copy, which spells the IsConfigured conditions out.
ValidateStorages(isBackup, awsS3, gcpStorage, azureBlob, local) ==
    LET awsOn == /\ awsS3 # NilPtr
                 /\ (awsS3.BucketName # "" \/ awsS3.Region # ""
                     \/ awsS3.Profile # "" \/ awsS3.Endpoint # "")
        gcpOn == /\ gcpStorage # NilPtr
                 /\ (gcpStorage.BucketName # "" \/ gcpStorage.KeyFile # ""
                     \/ gcpStorage.Endpoint # "")
        azureOn == /\ azureBlob # NilPtr
                   /\ (azureBlob.ContainerName # "" \/ azureBlob.AccountName # ""
                       \/ azureBlob.AccountKey # "" \/ azureBlob.Endpoint # ""
                       \/ azureBlob.TenantID # "" \/ azureBlob.ClientID # ""
                       \/ azureBlob.ClientSecret # "")
    IN StoragesVerdict(
           IF local # NilPtr THEN LocalValidate(local, isBackup) ELSE Nil,
           IF awsOn THEN AwsS3Validate(awsS3, isBackup) ELSE Nil,
           IF gcpOn THEN GcpStorageValidate(gcpStorage, isBackup) ELSE Nil,
           IF azureOn THEN AzureBlobValidate(azureBlob, isBackup) ELSE Nil,
           BoolToInt(awsOn) + BoolToInt(gcpOn) + BoolToInt(azureOn))

\* The storage options that the storages under test may set off the
\* baseline: "X.nil" makes the option model of X a nil pointer, "X.Verdict"
\* makes the Validate modelled by Verdict refuse X, a string field is set to
\* a non-empty value, a number to a value its check refuses.
StorageFlags ==
    { "local.nil", "local.Verdict",
      "aws.nil", "aws.BucketName", "aws.Region", "aws.Profile", "aws.Endpoint",
      "aws.Verdict",
      "gcp.nil", "gcp.BucketName", "gcp.KeyFile", "gcp.Endpoint", "gcp.Verdict",
      "azure.nil", "azure.ContainerName", "azure.AccountName",
      "azure.AccountKey", "azure.Endpoint", "azure.TenantID", "azure.ClientID",
      "azure.ClientSecret", "azure.RetryMaxAttempts", "azure.RetryDelay",
      "azure.RetryMaxDelay", "azure.BlockSize", "azure.UploadConcurrency",
      "azure.RestorePollDuration", "azure.Verdict" }

\* What a Validate modelled by Verdict answers when it refuses.
Refused == Errorf("invalid options")

Str(S, f, v) == IF f \in S THEN v ELSE ""

Verdict(S, f) == IF f \in S THEN Refused ELSE Nil

\* The baseline is a non-nil option model for each storage, no string set,
\* and numbers that AzureBlob.Validate accepts.
MkStorages(S, isBackup) ==
    [ isBackup |-> isBackup,
      local |-> IF "local.nil" \in S THEN NilPtr
                ELSE [Verdict |-> Verdict(S, "local.Verdict")],
      awsS3 |-> IF "aws.nil" \in S THEN NilPtr
                ELSE [ BucketName |-> Str(S, "aws.BucketName", "bucket"),
                       Region |-> Str(S, "aws.Region", "eu"),
                       Profile |-> Str(S, "aws.Profile", "default"),
                       Endpoint |-> Str(S, "aws.Endpoint", "https://s3.custom-endpoint.com"),
                       Verdict |-> Verdict(S, "aws.Verdict") ],
      gcpStorage |-> IF "gcp.nil" \in S THEN NilPtr
                ELSE [ BucketName |-> Str(S, "gcp.BucketName", "bucket"),
                       KeyFile |-> Str(S, "gcp.KeyFile", "key.json"),
                       Endpoint |-> Str(S, "gcp.Endpoint", "https://gcp.custom-endpoint.com"),
                       Verdict |-> Verdict(S, "gcp.Verdict") ],
      azureBlob |-> IF "azure.nil" \in S THEN NilPtr
                ELSE [ ContainerName |-> Str(S, "azure.ContainerName", "my-container"),
                       AccountName |-> Str(S, "azure.AccountName", "account"),
                       AccountKey |-> Str(S, "azure.AccountKey", "key"),
                       Endpoint |-> Str(S, "azure.Endpoint", "https://custom-endpoint.com"),
                       TenantID |-> Str(S, "azure.TenantID", "tenant"),
                       ClientID |-> Str(S, "azure.ClientID", "client"),
                       ClientSecret |-> Str(S, "azure.ClientSecret", "secret"),
                       RetryMaxAttempts |-> IF "azure.RetryMaxAttempts" \in S THEN -1 ELSE 0,
                       RetryDelay |-> IF "azure.RetryDelay" \in S THEN -1 ELSE 0,
                       RetryMaxDelay |-> IF "azure.RetryMaxDelay" \in S THEN -1 ELSE 0,
                       BlockSize |-> IF "azure.BlockSize" \in S THEN 0 ELSE 1,
                       UploadConcurrency |-> IF "azure.UploadConcurrency" \in S THEN 0 ELSE 1,
                       RestorePollDuration |-> IF "azure.RestorePollDuration" \in S THEN 0 ELSE 1,
                       StorageCommon |-> [Verdict |-> Verdict(S, "azure.Verdict")] ] ]

\* The subsets of S of at most n elements.
RECURSIVE SubsetsUpTo(_, _)
SubsetsUpTo(S, n) ==
    IF n = 0 THEN {{}}
    ELSE LET smaller == SubsetsUpTo(S, n - 1) IN
         smaller \cup { T \cup {x} : T \in smaller, x \in S }

\* Every storages input with at most n options off the baseline.
StoragesInputs(n) ==
    { MkStorages(S, isBackup) :
        S \in SubsetsUpTo(StorageFlags, n), isBackup \in BOOLEAN }

\* The Go zero value of the Backup option model of the assembler.
ZeroAssemblyBackup ==
    [ Namespace |-> "", Directory |-> "", Parallel |-> 0, Bandwidth |-> Zero64,
      NoRecords |-> FALSE, FileLimit |-> Zero64, OutputFile |-> "",
      RackList |-> <<>>, Continue |-> "", StateFileDst |-> "",
      ScanPageSize |-> 0, NodeList |-> <<>>, PartitionList |-> "",
      AfterDigest |-> "", FilterExpression |-> "", PreferRacks |-> "",
      NoBins |-> FALSE, ModifiedBefore |-> <<>>, ModifiedAfter |-> <<>> ]

\* 2^44 - 1, the largest file limit in MiB whose bytes fit a uint64, and
\* 2^44, the smallest that does not.
MaxFileLimitMiB == <<65535, 65535, 4095, 0>>

OverFileLimitMiB == <<0, 0, 4096, 0>>

\* 2^43 - 1, the largest bandwidth in MiB whose bytes fit an int64, 2^43,
\* the smallest positive one that does not, and -1.
MaxBandwidthMiB == <<65535, 65535, 2047, 0>>

OverBandwidthMiB == <<0, 0, 2048, 0>>

MinusOne64 == <<65535, 65535, 65535, 65535>>

\* The values, besides the zero value, that the fields of a Backup under
\* test take.  Rack lists: "1,2", "x", "-1", "1000001".  Node list:
\* "node1,node2".  Time strings: "2023-09-01_12:00:00", "12:34:56",
\* "2024-01-01", "invalid-date", "2023-13-01".
AssemblyValues ==
    [ Namespace |-> {"test-namespace"},
      Directory |-> {"/backup/dir"},
      Parallel |-> {1, 8},
      Bandwidth |-> {Word(50), MaxBandwidthMiB, OverBandwidthMiB, MinusOne64},
      NoRecords |-> {TRUE},
      FileLimit |-> {Word(1000), MaxFileLimitMiB, OverFileLimitMiB},
      OutputFile |-> {StdPlaceholder, "out.asb"},
      RackList |-> {<<49, 44, 50>>, <<120>>, <<45, 49>>, <<49, 48, 48, 48, 48, 48, 49>>},
      Continue |-> {"continue.state"},
      StateFileDst |-> {"state.asb"},
      ScanPageSize |-> {5000},
      NodeList |-> {<<110, 111, 100, 101, 49, 44, 110, 111, 100, 101, 50>>},
      PartitionList |-> {"1,2", "1,1", "0-3,2-2", "invalid"},
      AfterDigest |-> {"AvDsV2KuSZHZugDBftnLxGpR+88=", "invalid-digest"},
      FilterExpression |-> {"k1EDpHRlc3Q=", "invalid-exp"},
      PreferRacks |-> {"1"},
      NoBins |-> {TRUE},
      ModifiedBefore |-> {<<50, 48, 50, 51, 45, 48, 57, 45, 48, 49, 95, 49, 50, 58, 48, 48, 58, 48, 48>>,
                          <<49, 50, 58, 51, 52, 58, 53, 54>>,
                          <<50, 48, 50, 52, 45, 48, 49, 45, 48, 49>>,
                          <<105, 110, 118, 97, 108, 105, 100, 45, 100, 97, 116, 101>>,
                          <<50, 48, 50, 51, 45, 49, 51, 45, 48, 49>>},
      ModifiedAfter |-> {<<50, 48, 50, 51, 45, 48, 57, 45, 48, 50, 95, 49, 50, 58, 48, 48, 58, 48, 48>>,
                         <<105, 110, 118, 97, 108, 105, 100, 45, 100, 97, 116, 101>>} ]

\* At most this many fields of a Backup under assembly are off their zero
\* value.
MaxAssemblyFlags == 3

\* The records that give each field of F a value of vals.
RECURSIVE Choices(_, _)
Choices(F, vals) ==
    IF F = {} THEN {<<>>}
    ELSE LET f == CHOOSE f \in F : TRUE IN
         { (f :> v) @@ rest : v \in vals[f], rest \in Choices(F \ {f}, vals) }

\* Every Backup with at most n fields off their zero value.
AssemblyBackups(n) ==
    { set @@ ZeroAssemblyBackup :
        set \in UNION { Choices(F, AssemblyValues) :
                          F \in SubsetsUpTo(DOMAIN AssemblyValues, n) } }

\* The BackupXDR option models under test.
BackupXDRs ==
    [ Namespace : {"", "xdr-namespace"},
      FileLimit : {Zero64, Word(200), OverFileLimitMiB},
      ParallelWrite : {0, 4} ]

\* A service config has no Backup and any BackupXDR, or a Backup with at
\* most n fields off their zero value and one BackupXDR at most.
ServiceConfigs(n) ==
    LET env == [NumCPU |-> 16, Today |-> <<2024, 2, 29>>] IN
    { [Backup |-> NilPtr, BackupXDR |-> x] @@ env : x \in BackupXDRs \cup {NilPtr} }
    \cup
    { [Backup |-> bk, BackupXDR |-> x] @@ env :
        bk \in AssemblyBackups(n),
        x \in {NilPtr, [Namespace |-> "xdr-namespace", FileLimit |-> Word(200),
                        ParallelWrite |-> 4]} }

\* The Backups handed to ScanPolicy alone.
ScanPolicyInputs ==
    { [ ZeroAssemblyBackup EXCEPT
          !.PreferRacks = pr, !.RackList = rl, !.NodeList = nl, !.NoBins = nb,
          !.FilterExpression = fe ] :
        pr \in {"", "1"}, rl \in {<<>>} \cup AssemblyValues.RackList,
        nl \in {<<>>} \cup AssemblyValues.NodeList, nb \in BOOLEAN,
        fe \in {""} \cup AssemblyValues.FilterExpression }

----------------------------------------------------------------------------
(* The restore file config: DefaultRestore, ToModelRestore and the merge   *)
(* A pointer field of the DTO is NilPtr or [ptr |-> the value it points    *)
(* to], a list field a sequence of strings.  Floating point options take   *)
(* whole values.  The restore command's flags, the YAML decoder and the    *)
(* merge of the two follow the specification.  The DTO has no key for the  *)
(* restore mode, which the flags alone decide and the model leaves out.    *)

\* The Default Catalog: the constants of the models package that the restore
\* options start from.
DefaultCatalog ==
    [ DefaultCommonDirectory |-> "",
      DefaultCommonNamespace |-> "",
      DefaultCommonNoRecords |-> FALSE,
      DefaultCommonNoIndexes |-> FALSE,
      DefaultCommonNoUDFs |-> FALSE,
      DefaultCommonRecordsPerSecond |-> 0,
      DefaultCommonSocketTimeout |-> 10000,
      DefaultCommonInfoTimeout |-> 10000,
      DefaultCommonInfoMaxRetries |-> 3,
      DefaultCommonInfoRetriesMultiplier |-> 1,
      DefaultCommonInfoRetryInterval |-> 1000,
      DefaultCommonBandwidth |-> 0,
      DefaultCommonStdBufferSize |-> 4,
      DefaultRestoreTotalTimeout |-> 10000,
      DefaultRestoreParallel |-> 1,
      DefaultRestoreInputFile |-> "",
      DefaultRestoreParentDirectory |-> "",
      DefaultRestoreDisableBatchWrites |-> FALSE,
      DefaultRestoreBatchSize |-> 128,
      DefaultRestoreMaxAsyncBatches |-> 32,
      DefaultRestoreWarmUp |-> 0,
      DefaultRestoreExtraTTL |-> 0,
      DefaultRestoreIgnoreRecordError |-> FALSE,
      DefaultRestoreUniq |-> FALSE,
      DefaultRestoreReplace |-> FALSE,
      DefaultRestoreNoGeneration |-> FALSE,
      DefaultRestoreRetryBaseInterval |-> 1000,
      DefaultRestoreRetryMultiplier |-> 1,
      DefaultRestoreRetryMaxAttempts |-> 0,
      DefaultRestoreValidateOnly |-> FALSE,
      DefaultRestoreApplyMetadataLast |-> FALSE ]

\* The options of the restore section, as RestoreConfig declares them.
RestoreOptions ==
    { "Directory", "Namespace", "SetList", "BinList",
      "Parallel", "NoRecords", "NoIndexes", "NoUDFs",
      "RecordsPerSecond", "TotalTimeout", "SocketTimeout", "Bandwidth",
      "InputFile", "DirectoryList", "ParentDirectory", "DisableBatchWrites",
      "BatchSize", "MaxAsyncBatches", "WarmUp", "ExtraTTL",
      "IgnoreRecordError", "Uniq", "Replace", "NoGeneration",
      "RetryBaseInterval", "RetryMultiplier", "RetryMaxAttempts", "ValidateOnly",
      "InfoTimeout", "InfoMaxRetries", "InfoRetriesMultiplier", "InfoRetryIntervalMilliseconds",
      "ApplyMetadataLast", "StdBufferSize" }

\* The options that the file gives as a list and the model as one
\* comma-separated string.
ListOptions == {"SetList", "BinList", "DirectoryList"}

\* new(x): a pointer to a variable that holds x.
New(x) == [ptr |-> x]

\* derefString(p) and the like: the value p points to, the zero value for a
\* nil p.
derefString(p) == IF p = NilPtr THEN "" ELSE p.ptr

derefInt(p) == IF p = NilPtr THEN 0 ELSE p.ptr

derefInt64(p) == IF p = NilPtr THEN 0 ELSE p.ptr

derefUint(p) == IF p = NilPtr THEN 0 ELSE p.ptr

derefFloat64(p) == IF p = NilPtr THEN 0 ELSE p.ptr

derefBool(p) == IF p = NilPtr THEN FALSE ELSE p.ptr

\* defaultRestoreConfig()
defaultRestoreConfig ==
    [ Directory |-> New(DefaultCatalog.DefaultCommonDirectory),
      Namespace |-> New(DefaultCatalog.DefaultCommonNamespace),
      SetList |-> <<>>,
      BinList |-> <<>>,
      NoRecords |-> New(DefaultCatalog.DefaultCommonNoRecords),
      NoIndexes |-> New(DefaultCatalog.DefaultCommonNoIndexes),
      NoUDFs |-> New(DefaultCatalog.DefaultCommonNoUDFs),
      RecordsPerSecond |-> New(DefaultCatalog.DefaultCommonRecordsPerSecond),
      SocketTimeout |-> New(DefaultCatalog.DefaultCommonSocketTimeout),
      InfoTimeout |-> New(DefaultCatalog.DefaultCommonInfoTimeout),
      InfoMaxRetries |-> New(DefaultCatalog.DefaultCommonInfoMaxRetries),
      InfoRetriesMultiplier |-> New(DefaultCatalog.DefaultCommonInfoRetriesMultiplier),
      InfoRetryIntervalMilliseconds |-> New(DefaultCatalog.DefaultCommonInfoRetryInterval),
      Bandwidth |-> New(DefaultCatalog.DefaultCommonBandwidth),
      StdBufferSize |-> New(DefaultCatalog.DefaultCommonStdBufferSize),
      TotalTimeout |-> New(DefaultCatalog.DefaultRestoreTotalTimeout),
      Parallel |-> New(DefaultCatalog.DefaultRestoreParallel),
      InputFile |-> New(DefaultCatalog.DefaultRestoreInputFile),
      DirectoryList |-> <<>>,
      ParentDirectory |-> New(DefaultCatalog.DefaultRestoreParentDirectory),
      DisableBatchWrites |-> New(DefaultCatalog.DefaultRestoreDisableBatchWrites),
      BatchSize |-> New(DefaultCatalog.DefaultRestoreBatchSize),
      MaxAsyncBatches |-> New(DefaultCatalog.DefaultRestoreMaxAsyncBatches),
      WarmUp |-> New(DefaultCatalog.DefaultRestoreWarmUp),
      ExtraTTL |-> New(DefaultCatalog.DefaultRestoreExtraTTL),
      IgnoreRecordError |-> New(DefaultCatalog.DefaultRestoreIgnoreRecordError),
      Uniq |-> New(DefaultCatalog.DefaultRestoreUniq),
      Replace |-> New(DefaultCatalog.DefaultRestoreReplace),
      NoGeneration |-> New(DefaultCatalog.DefaultRestoreNoGeneration),
      RetryBaseInterval |-> New(DefaultCatalog.DefaultRestoreRetryBaseInterval),
      RetryMultiplier |-> New(DefaultCatalog.DefaultRestoreRetryMultiplier),
      RetryMaxAttempts |-> New(DefaultCatalog.DefaultRestoreRetryMaxAttempts),
      ValidateOnly |-> New(DefaultCatalog.DefaultRestoreValidateOnly),
      ApplyMetadataLast |-> New(DefaultCatalog.DefaultRestoreApplyMetadataLast) ]

\* DefaultRestore(): the restore section of the DTO.
DefaultRestore == [Restore |-> defaultRestoreConfig]

\* A variant that projects no-indexes from the no-udfs key.
ToModelRestore_SwappedNoIndexes(dto) ==
    IF dto = NilPtr THEN NilPtr
    ELSE
         [ Directory |-> derefString(dto.Restore.Directory),
           Namespace |-> derefString(dto.Restore.Namespace),
           SetList |-> Join(dto.Restore.SetList, ","),
           BinList |-> Join(dto.Restore.BinList, ","),
           Parallel |-> derefInt(dto.Restore.Parallel),
           NoRecords |-> derefBool(dto.Restore.NoRecords),
           NoIndexes |-> derefBool(dto.Restore.NoUDFs),
           NoUDFs |-> derefBool(dto.Restore.NoUDFs),
           RecordsPerSecond |-> derefInt(dto.Restore.RecordsPerSecond),
           TotalTimeout |-> derefInt64(dto.Restore.TotalTimeout),
           SocketTimeout |-> derefInt64(dto.Restore.SocketTimeout),
           Bandwidth |-> derefInt64(dto.Restore.Bandwidth),
           InfoTimeout |-> derefInt64(dto.Restore.InfoTimeout),
           InfoMaxRetries |-> derefUint(dto.Restore.InfoMaxRetries),
           InfoRetriesMultiplier |-> derefFloat64(dto.Restore.InfoRetriesMultiplier),
           InfoRetryIntervalMilliseconds |-> derefInt64(dto.Restore.InfoRetryIntervalMilliseconds),
           StdBufferSize |-> derefInt(dto.Restore.StdBufferSize),
           InputFile |-> derefString(dto.Restore.InputFile),
           DirectoryList |-> Join(dto.Restore.DirectoryList, ","),
           ParentDirectory |-> derefString(dto.Restore.ParentDirectory),
           DisableBatchWrites |-> derefBool(dto.Restore.DisableBatchWrites),
           BatchSize |-> derefInt(dto.Restore.BatchSize),
           MaxAsyncBatches |-> derefInt(dto.Restore.MaxAsyncBatches),
           WarmUp |-> derefInt(dto.Restore.WarmUp),
           ExtraTTL |-> derefInt64(dto.Restore.ExtraTTL),
           IgnoreRecordError |-> derefBool(dto.Restore.IgnoreRecordError),
           Uniq |-> derefBool(dto.Restore.Uniq),
           Replace |-> derefBool(dto.Restore.Replace),
           NoGeneration |-> derefBool(dto.Restore.NoGeneration),
           RetryBaseInterval |-> derefInt64(dto.Restore.RetryBaseInterval),
           RetryMultiplier |-> derefFloat64(dto.Restore.RetryMultiplier),
           RetryMaxAttempts |-> derefUint(dto.Restore.RetryMaxAttempts),
           ValidateOnly |-> derefBool(dto.Restore.ValidateOnly),
           ApplyMetadataLast |-> derefBool(dto.Restore.ApplyMetadataLast) ]

\* (r *Restore) ToModelRestore()
ToModelRestore(dto) ==
    IF dto = NilPtr THEN NilPtr
    ELSE
         [ Directory |-> derefString(dto.Restore.Directory),
           Namespace |-> derefString(dto.Restore.Namespace),
           SetList |-> Join(dto.Restore.SetList, ","),
           BinList |-> Join(dto.Restore.BinList, ","),
           Parallel |-> derefInt(dto.Restore.Parallel),
           NoRecords |-> derefBool(dto.Restore.NoRecords),
           NoIndexes |-> derefBool(dto.Restore.NoIndexes),
           NoUDFs |-> derefBool(dto.Restore.NoUDFs),
           RecordsPerSecond |-> derefInt(dto.Restore.RecordsPerSecond),
           TotalTimeout |-> derefInt64(dto.Restore.TotalTimeout),
           SocketTimeout |-> derefInt64(dto.Restore.SocketTimeout),
           Bandwidth |-> derefInt64(dto.Restore.Bandwidth),
           InfoTimeout |-> derefInt64(dto.Restore.InfoTimeout),
           InfoMaxRetries |-> derefUint(dto.Restore.InfoMaxRetries),
           InfoRetriesMultiplier |-> derefFloat64(dto.Restore.InfoRetriesMultiplier),
           InfoRetryIntervalMilliseconds |-> derefInt64(dto.Restore.InfoRetryIntervalMilliseconds),
           StdBufferSize |-> derefInt(dto.Restore.StdBufferSize),
           InputFile |-> derefString(dto.Restore.InputFile),
           DirectoryList |-> Join(dto.Restore.DirectoryList, ","),
           ParentDirectory |-> derefString(dto.Restore.ParentDirectory),
           DisableBatchWrites |-> derefBool(dto.Restore.DisableBatchWrites),
           BatchSize |-> derefInt(dto.Restore.BatchSize),
           MaxAsyncBatches |-> derefInt(dto.Restore.MaxAsyncBatches),
           WarmUp |-> derefInt(dto.Restore.WarmUp),
           ExtraTTL |-> derefInt64(dto.Restore.ExtraTTL),
           IgnoreRecordError |-> derefBool(dto.Restore.IgnoreRecordError),
           Uniq |-> derefBool(dto.Restore.Uniq),
           Replace |-> derefBool(dto.Restore.Replace),
           NoGeneration |-> derefBool(dto.Restore.NoGeneration),
           RetryBaseInterval |-> derefInt64(dto.Restore.RetryBaseInterval),
           RetryMultiplier |-> derefFloat64(dto.Restore.RetryMultiplier),
           RetryMaxAttempts |-> derefUint(dto.Restore.RetryMaxAttempts),
           ValidateOnly |-> derefBool(dto.Restore.ValidateOnly),
           ApplyMetadataLast |-> derefBool(dto.Restore.ApplyMetadataLast) ]

\* Decoding the YAML document doc into the DTO dto: every key of doc sets its
\* field (a pointer field to point to a new variable), the other fields
\* keep what they hold.
Unmarshal(doc, dto) ==
    [ dto EXCEPT !.Restore = [ f \in DOMAIN dto.Restore |->
                               IF f \notin DOMAIN doc THEN dto.Restore[f]
                               ELSE IF f \in ListOptions THEN doc[f]
                               ELSE New(doc[f]) ] ]

\* The restore flags as registered, each seeded from the Default Catalog.
NewFlagSet ==
    [ Directory |-> DefaultCatalog.DefaultCommonDirectory,
      Namespace |-> DefaultCatalog.DefaultCommonNamespace,
      SetList |-> "",
      BinList |-> "",
      Parallel |-> DefaultCatalog.DefaultRestoreParallel,
      NoRecords |-> DefaultCatalog.DefaultCommonNoRecords,
      NoIndexes |-> DefaultCatalog.DefaultCommonNoIndexes,
      NoUDFs |-> DefaultCatalog.DefaultCommonNoUDFs,
      RecordsPerSecond |-> DefaultCatalog.DefaultCommonRecordsPerSecond,
      TotalTimeout |-> DefaultCatalog.DefaultRestoreTotalTimeout,
      SocketTimeout |-> DefaultCatalog.DefaultCommonSocketTimeout,
      Bandwidth |-> DefaultCatalog.DefaultCommonBandwidth,
      InputFile |-> DefaultCatalog.DefaultRestoreInputFile,
      DirectoryList |-> "",
      ParentDirectory |-> DefaultCatalog.DefaultRestoreParentDirectory,
      DisableBatchWrites |-> DefaultCatalog.DefaultRestoreDisableBatchWrites,
      BatchSize |-> DefaultCatalog.DefaultRestoreBatchSize,
      MaxAsyncBatches |-> DefaultCatalog.DefaultRestoreMaxAsyncBatches,
      WarmUp |-> DefaultCatalog.DefaultRestoreWarmUp,
      ExtraTTL |-> DefaultCatalog.DefaultRestoreExtraTTL,
      IgnoreRecordError |-> DefaultCatalog.DefaultRestoreIgnoreRecordError,
      Uniq |-> DefaultCatalog.DefaultRestoreUniq,
      Replace |-> DefaultCatalog.DefaultRestoreReplace,
      NoGeneration |-> DefaultCatalog.DefaultRestoreNoGeneration,
      RetryBaseInterval |-> DefaultCatalog.DefaultRestoreRetryBaseInterval,
      RetryMultiplier |-> DefaultCatalog.DefaultRestoreRetryMultiplier,
      RetryMaxAttempts |-> DefaultCatalog.DefaultRestoreRetryMaxAttempts,
      ValidateOnly |-> DefaultCatalog.DefaultRestoreValidateOnly,
      InfoTimeout |-> DefaultCatalog.DefaultCommonInfoTimeout,
      InfoMaxRetries |-> DefaultCatalog.DefaultCommonInfoMaxRetries,
      InfoRetriesMultiplier |-> DefaultCatalog.DefaultCommonInfoRetriesMultiplier,
      InfoRetryIntervalMilliseconds |-> DefaultCatalog.DefaultCommonInfoRetryInterval,
      ApplyMetadataLast |-> DefaultCatalog.DefaultRestoreApplyMetadataLast,
      StdBufferSize |-> DefaultCatalog.DefaultCommonStdBufferSize ]

\* Parsing a command line: args gives a value to every flag passed.
ParseFlags(args) == [Changed |-> DOMAIN args, Value |-> args @@ NewFlagSet]

\* The option model after the merge: without a config file the values of
\* the flags; with one the model of the file, and over it the value of
\* every flag that was passed.
Merge(flags, doc) ==
    IF doc = NilPtr THEN flags.Value
    ELSE LET fileModel == ToModelRestore(Unmarshal(doc, DefaultRestore)) IN
         [ f \in DOMAIN fileModel |->
             IF f \in flags.Changed THEN flags.Value[f] ELSE fileModel[f] ]

\* The options that hold a truth value, and those that hold a string.
BoolOptions ==
    { "NoRecords", "NoIndexes", "NoUDFs", "DisableBatchWrites",
      "IgnoreRecordError", "Uniq", "Replace", "NoGeneration", "ValidateOnly",
      "ApplyMetadataLast" }

StringOptions == {"Directory", "Namespace", "InputFile", "ParentDirectory"}

\* The values a flag is passed with: the default of the option and one
\* other value.
FlagValues ==
    [ o \in RestoreOptions |->
        IF o \in ListOptions THEN {"", "x,y"}
        ELSE IF o \in BoolOptions THEN BOOLEAN
        ELSE IF o \in StringOptions THEN {"", "flag-value"}
        ELSE {NewFlagSet[o], NewFlagSet[o] + 1} ]

\* The values a YAML document gives a key: the zero value of the option and
\* one value that is neither the default nor a value of the flag.
FileValues ==
    [ o \in RestoreOptions |->
        IF o \in ListOptions THEN {<<>>, <<"a", "b">>}
        ELSE IF o \in BoolOptions THEN BOOLEAN
        ELSE IF o \in StringOptions THEN {"", "file-value"}
        ELSE {0, NewFlagSet[o] + 2} ]

\* At most this many options are given a value on the command line or in
\* the file.
MaxMergedOptions == 1

\* Every command line and config file (NilPtr: no config file) that give a
\* value to at most n options between them.
MergeInputs(n) ==
    LET Inputs(A, Y) ==
            { [Flags |-> ParseFlags(args), Config |-> doc] :
                args \in Choices(A, FlagValues),
                doc \in Choices(Y, FileValues) \cup (IF Y = {} THEN {NilPtr} ELSE {}) }
        Pairs == { p \in SubsetsUpTo(RestoreOptions, n) \X SubsetsUpTo(RestoreOptions, n) :
                     Cardinality(p[1] \cup p[2]) <= n }
    IN UNION { Inputs(p[1], p[2]) : p \in Pairs }

----------------------------------------------------------------------------
(* Time strings handed to parseLocalTimeToUTC                              *)

\* "HH:MM:SS" of three numbers below 100.
ClockString(h, m, s) == Pad(h, 2) \o <<58>> \o Pad(m, 2) \o <<58>> \o Pad(s, 2)

\* Dates and clock times, in and out of range.
DateStrings ==
    { FormatDate(<<y, m, d>>) :
        y \in {2023, 2024}, m \in {0, 1, 2, 9, 12, 13},
        d \in {0, 1, 28, 29, 30, 31, 32} }

ClockStrings ==
    { ClockString(h, m, s) : h \in {0, 12, 23, 24, 25}, m \in {0, 34, 59, 60},
                             s \in {0, 56, 59, 60} }

\* s with its i-th byte replaced by c.
ReplaceAt(s, i, c) == [s EXCEPT ![i] = c]

\* Strings of no known format: one byte of a well-formed string replaced by
\* a letter or by another separator, a byte dropped or added, and the
\* strings "invalid-format", "invalid-date" and "".
UnknownFormats ==
    LET good == { <<50, 48, 50, 51, 45, 48, 57, 45, 48, 49, 95, 49, 50, 58, 51, 52, 58, 53, 54>>,
                  <<49, 50, 58, 51, 52, 58, 53, 54>>,
                  <<50, 48, 50, 51, 45, 48, 57, 45, 48, 49>> }
    IN UNION { { ReplaceAt(s, i, 120) : i \in DOMAIN s }
               \cup { ReplaceAt(s, i, 47) : i \in DOMAIN s }
               \cup { Tail(s), SubSeq(s, 1, Len(s) - 1), s \o <<48>>, <<32>> \o s } :
               s \in good }
       \cup { <<105, 110, 118, 97, 108, 105, 100, 45, 102, 111, 114, 109, 97, 116>>,
               <<105, 110, 118, 97, 108, 105, 100, 45, 100, 97, 116, 101>>,
               <<>> }

TimeStrings ==
    { d \o <<95>> \o c : d \in DateStrings, c \in ClockStrings }
    \cup DateStrings \cup ClockStrings \cup UnknownFormats

\* The local date of time.Now() at the call.
Todays == {<<2024, 2, 29>>, <<2023, 12, 31>>}

----------------------------------------------------------------------------
(* SecretAgent.Validate                                                    *)
(* The connection type is a sequence of bytes.                             *)

\* strings.ToLower, for ASCII letters.
ToLower(s) == [i \in DOMAIN s |-> IF s[i] \in 65..90 THEN s[i] + 32 ELSE s[i]]

\* strings.EqualFold, for ASCII strings.
EqualFold(s, t) == ToLower(s) = ToLower(t)

\* sa.ConnectionTypeTCP = "tcp" and sa.ConnectionTypeUDS = "unix"
ConnectionTypeTCP == <<116, 99, 112>>

ConnectionTypeUDS == <<117, 110, 105, 120>>

\* (s *SecretAgent) Validate()
SecretAgentValidate(s) ==
    IF s = NilPtr THEN Nil
    ELSE IF s.ConnectionType = <<>> THEN Errorf("missing connection type")
    ELSE IF /\ ~EqualFold(s.ConnectionType, ConnectionTypeTCP)
            /\ ~EqualFold(s.ConnectionType, ConnectionTypeUDS)
        THEN ErrorfArgs("unsupported connection type: %s", -1, -1, <<s.ConnectionType>>)
    ELSE Nil

\* The receivers Validate is called on, by option group: no receiver
\* (NilPtr), and receivers with one option off the baseline.
Receivers ==
    [ Backup |-> {NilPtr, ZeroBackup}
                 \cup { MkBackup({f}, 0, 0, <<>>) : f \in BackupFlags },
      Restore |-> {NilPtr} \cup RestoreInputs,
      SecretAgent |-> {NilPtr}
                      \cup [ ConnectionType : { <<>>, <<116, 99, 112>>, <<84, 67, 80>>,
                                                <<117, 110, 105, 120>>, <<85, 110, 105, 120>>,
                                                <<117, 100, 112>>, <<116, 99, 112, 32>> },
                              Address : {"", "127.0.0.1"}, Port : {0, 3005} ],
      AzureBlob |-> {NilPtr}
                    \cup { MkStorages(S, TRUE).azureBlob : S \in SubsetsUpTo(StorageFlags, 1) } ]

----------------------------------------------------------------------------
(* Secret resolution: App.PreRun over the flag set, and                    *)
(* resolveSecretFields over the string fields of the file configuration.   *)
(* A value is a sequence of bytes.  A flag set is the sequence of the      *)
(* values of the flags to preload, in the order of that list; a field is   *)
(* NilPtr or a pointer New(value).  The state of a run is the values and   *)
(* the calls of the resolver so far, in order: the position of the flag or *)
(* field and the secret handed over.  An error is wrapped with the name of *)
(* a flag, [name |-> n], or with the value of a field, [value |-> v].      *)

\* const secretsPrefix = "secrets:"
secretsPrefix == <<115, 101, 99, 114, 101, 116, 115, 58>>

\* strings.HasPrefix
HasPrefix(s, p) == Len(s) >= Len(p) /\ SubSeq(s, 1, Len(p)) = p

\* The secret the agent holds, and the reference that names it; every other
\* reference fails.
ResolvedSecret == <<118>>

KnownSecret == secretsPrefix \o <<107>>

\* backup.ParseSecret of the backup library: a value without the prefix is
\* returned as it is, a reference is looked up at the secret agent.
ParseSecret(secret) ==
    IF ~HasPrefix(secret, secretsPrefix) THEN [val |-> secret, err |-> Nil]
    ELSE IF secret = KnownSecret THEN [val |-> ResolvedSecret, err |-> Nil]
    ELSE [val |-> <<>>, err |-> Errorf("secret not found")]

\* flagsToPreload of App.PreRun, by the names of its flag constants.
flagsToPreload ==
    << "flagHost", "flagPort", "flagUser", "flagPassword", "flagTLSName",
       "flagTLSCaFile", "flagTLSCapath", "flagTLSCertFile", "flagTLSKeyFile",
       "flagTLSKeyFilePassword", "flagTLSProtocols",
       "flagEncryptKeyFile", "flagEncryptKeyEnv", "flagEncryptKeySecret",
       "flagS3BucketName", "flagS3Region", "flagS3Profile", "flagS3Endpoint",
       "flagS3AccessKeyID", "flagS3SecretAccessKey", "flagS3StorageClass",
       "flagS3AccessTier" >>

\* flagsToPreload of the App.PreRun that resolves with sa.GetSecret.
flagsToPreloadGetSecret ==
    << "host", "port", "user", "password", "tls-name", "tls-cafile",
       "tls-capath", "tls-certfile", "tls-keyfile", "tls-keyfile-password",
       "tls-protocols" >>

\* A variant that does not trim the value of the flag.
parseValueWithSecretAgent_Untrimmed(st, names, i) ==
    LET curVal == st.values[i]
        o == ParseSecret(curVal)
    IN IF curVal = <<>> THEN [st EXCEPT !.err = Nil]
       ELSE IF ~HasPrefix(curVal, secretsPrefix) THEN [st EXCEPT !.err = Nil]
       ELSE IF o.err # Nil
           THEN [st EXCEPT !.calls = Append(@, <<i, curVal>>),
                           !.err = Wrap("failed to get secret for %s",
                                        [o.err EXCEPT !.arg = <<[name |-> names[i]]>>])]
       ELSE [st EXCEPT !.calls = Append(@, <<i, curVal>>), !.values[i] = o.val, !.err = Nil]

\* parseValueWithSecretAgent(ctx, fs, saCfg, name), name the i-th of names;
\* flag.Value.Set stores the value.
parseValueWithSecretAgent(st, names, i) ==
    LET curVal == TrimSpace(st.values[i])
        o == ParseSecret(curVal)
    IN IF curVal = <<>> THEN [st EXCEPT !.err = Nil]
       ELSE IF ~HasPrefix(curVal, secretsPrefix) THEN [st EXCEPT !.err = Nil]
       ELSE IF o.err # Nil
           THEN [st EXCEPT !.calls = Append(@, <<i, curVal>>),
                           !.err = Wrap("failed to get secret for %s",
                                        [o.err EXCEPT !.arg = <<[name |-> names[i]]>>])]
       ELSE [st EXCEPT !.calls = Append(@, <<i, curVal>>), !.values[i] = o.val, !.err = Nil]

\* parseValueWithSecretAgent(ctx, fs, sa, name) with sa.GetSecret, which is
\* backup.ParseSecret with the configuration of the agent.
parseValueWithGetSecret(st, names, i) ==
    LET o == ParseSecret(st.values[i])
    IN IF o.err # Nil
           THEN [st EXCEPT !.calls = Append(@, <<i, st.values[i]>>),
                           !.err = Wrap("failed to get secret for %s",
                                        [o.err EXCEPT !.arg = <<[name |-> names[i]]>>])]
       ELSE [st EXCEPT !.calls = Append(@, <<i, st.values[i]>>), !.values[i] = o.val, !.err = Nil]

\* The loop of App.PreRun from the i-th flag on: the first error returns.
RECURSIVE PreRunFrom(_, _, _, _)
PreRunFrom(st, names, i, getSecret) ==
    IF i > Len(names) THEN st
    ELSE LET n == IF getSecret THEN parseValueWithGetSecret(st, names, i)
                  ELSE parseValueWithSecretAgent(st, names, i)
         IN IF n.err # Nil THEN n ELSE PreRunFrom(n, names, i + 1, getSecret)

\* (f *App) PreRun(cmd, sa), on the values of the flags of cmd.
PreRun(values) ==
    PreRunFrom([values |-> values, calls |-> <<>>, err |-> Nil], flagsToPreload, 1, FALSE)

\* (f *App) PreRun(cmd, sa) that resolves with sa.GetSecret.
PreRunGetSecret(values) ==
    PreRunFrom([values |-> values, calls |-> <<>>, err |-> Nil],
               flagsToPreloadGetSecret, 1, TRUE)

\* A variant that goes on after a failed resolution.
RECURSIVE resolveSecretFields_KeepsGoing(_, _)
resolveSecretFields_KeepsGoing(st, i) ==
    IF i > Len(st.values) THEN st
    ELSE LET field == st.values[i]
         IN IF field = NilPtr \/ field.ptr = <<>>
                THEN resolveSecretFields_KeepsGoing(st, i + 1)
            ELSE IF ~HasPrefix(field.ptr, secretsPrefix)
                THEN resolveSecretFields_KeepsGoing(st, i + 1)
            ELSE LET o == ParseSecret(field.ptr)
                     called == [st EXCEPT !.calls = Append(@, <<i, field.ptr>>)]
                 IN IF o.err # Nil
                        THEN resolveSecretFields_KeepsGoing(
                                 [called EXCEPT !.err =
                                     Wrap("failed to resolve secret %q", [o.err EXCEPT !.arg = <<[value |-> field.ptr]>>])],
                                 i + 1)
                    ELSE resolveSecretFields_KeepsGoing(
                             [called EXCEPT !.values[i] = New(o.val)], i + 1)

\* resolveSecretFields(ctx, saCfg, fields...), from the i-th field on; %q
\* formats the value of the field.
RECURSIVE resolveSecretFields(_, _)
resolveSecretFields(st, i) ==
    IF i > Len(st.values) THEN st
    ELSE LET field == st.values[i]
         IN IF field = NilPtr \/ field.ptr = <<>> THEN resolveSecretFields(st, i + 1)
            ELSE IF ~HasPrefix(field.ptr, secretsPrefix) THEN resolveSecretFields(st, i + 1)
            ELSE LET o == ParseSecret(field.ptr)
                     called == [st EXCEPT !.calls = Append(@, <<i, field.ptr>>)]
                 IN IF o.err # Nil
                        THEN [called EXCEPT !.err =
                                 Wrap("failed to resolve secret %q", [o.err EXCEPT !.arg = <<[value |-> field.ptr]>>])]
                    ELSE resolveSecretFields([called EXCEPT !.values[i] = New(o.val)], i + 1)

\* The values of a flag or field: plain, blank, a reference the agent
\* resolves and one it does not, and references after a space.
SecretValues ==
    { <<97>>, <<32>>, KnownSecret, secretsPrefix \o <<120>>,
      <<32>> \o KnownSecret, <<32>> \o secretsPrefix \o <<120>> }

\* At most MaxSecretFlags flags hold a value, the others are empty.
MaxSecretFlags == 2

\* At most MaxFields fields.
MaxFields == 3

\* The flag set of n flags whose flags in S hold the values f, the others
\* empty.
FlagSet(n, S, f) == [i \in 1..n |-> IF i \in S THEN f[i] ELSE <<>>]

\* The lists of at most n fields.
FieldLists(n) == SeqsUpTo({NilPtr, New(<<>>)} \cup { New(v) : v \in SecretValues }, n)

----------------------------------------------------------------------------
(* SecretAgent.ToConfig, and the assembler with the option models it       *)
(* leaves behind.  A SecretAgent holds its options and config, the config  *)
(* it built last (NilPtr before the first); a field of a                   *)
(* backup.SecretAgentConfig is NilPtr or a pointer New(value).             *)

\* The fields of a SecretAgent that are options.
SecretAgentOptions ==
    { "ConnectionType", "Address", "Port", "TimeoutMillisecond", "CaFile",
      "TLSName", "CertFile", "KeyFile", "IsBase64" }

\* The backup.SecretAgentConfig that ToConfig builds for s.
SecretAgentConfig(s) ==
    [ Address |-> New(s.Address),
      ConnectionType |-> IF s.ConnectionType # <<>>
                         THEN New(ToLower(s.ConnectionType)) ELSE NilPtr,
      Port |-> IF s.Port # 0 THEN New(s.Port) ELSE NilPtr,
      TimeoutMillisecond |-> IF s.TimeoutMillisecond # 0
                             THEN New(s.TimeoutMillisecond) ELSE NilPtr,
      CaFile |-> IF s.CaFile # "" THEN New(s.CaFile) ELSE NilPtr,
      TLSName |-> IF s.TLSName # "" THEN New(s.TLSName) ELSE NilPtr,
      CertFile |-> IF s.CertFile # "" THEN New(s.CertFile) ELSE NilPtr,
      KeyFile |-> IF s.KeyFile # "" THEN New(s.KeyFile) ELSE NilPtr,
      IsBase64 |-> IF s.IsBase64 THEN New(TRUE) ELSE NilPtr ]

\* A variant that stores the lowered connection type in the receiver too.
ToConfig_LowersReceiver(s) ==
    IF s = NilPtr THEN [val |-> NilPtr, receiver |-> s]
    ELSE IF s.Address = "" THEN [val |-> NilPtr, receiver |-> s]
    ELSE [ val |-> SecretAgentConfig(s),
           receiver |-> [s EXCEPT !.ConnectionType = ToLower(@),
                                  !.config = SecretAgentConfig(s)] ]

\* (s *SecretAgent) ToConfig(): the config it returns and the receiver
\* after the call.
ToConfig(s) ==
    IF s = NilPtr THEN [val |-> NilPtr, receiver |-> s]
    ELSE IF s.Address = "" THEN [val |-> NilPtr, receiver |-> s]
    ELSE [ val |-> SecretAgentConfig(s),
           receiver |-> [s EXCEPT !.config = SecretAgentConfig(s)] ]

\* Whether NewBackupConfigs, with the outcome o, got as far as the config
\* of the secret agent: newBackupXDRConfig always does, newBackupConfig
\* once the filters and the scan policy are there.
ReachesSecretAgent(config, o) ==
    /\ o # Panic
    /\ \/ IsXDR(config)
       \/ o.err = Nil
       \/ \E t \in { <<"failed to parse modified before date", config.Backup.ModifiedBefore>>,
                      <<"failed to parse modified after date", config.Backup.ModifiedAfter>> } :
              o.err = Wrap("failed to map backup config",
                           Wrap(t[1], parseLocalTimeToUTC(t[2], config.Today).err))

\* NewBackupConfigs on the option models of config: each outcome, with the
\* config of the secret agent it holds and the option models after it.
Assemble(config) ==
    { LET agent == IF ReachesSecretAgent(config, o) THEN ToConfig(config.SecretAgent)
                   ELSE [val |-> NilPtr, receiver |-> config.SecretAgent]
      IN [ out |-> o,
           SecretAgentConfig |-> agent.val,
           models |-> [config EXCEPT !.SecretAgent = agent.receiver] ] :
        o \in NewBackupConfigs(config) }

\* At most MaxFrameFlags fields of the Backup are off their zero value.
MaxFrameFlags == 1

\* The secret agents under test, before and after a first ToConfig.
SecretAgents ==
    LET fresh == [ ConnectionType : {<<>>, <<84, 67, 80>>}, Address : {"", "127.0.0.1"},
                   Port : {0, 3005}, TimeoutMillisecond : {0}, CaFile : {"", "ca.pem"},
                   TLSName : {""}, CertFile : {""}, KeyFile : {""},
                   IsBase64 : BOOLEAN, config : {NilPtr} ]
    IN fresh \cup { ToConfig(s).receiver : s \in fresh } \cup {NilPtr}

----------------------------------------------------------------------------
(* deferredCertValue: the wrapper of a CertFlag that defers reading the    *)
(* file when the value is a reference to a secret.  A deferredCertValue is *)
(* [pendingSecret, raw, original], original the content of the wrapped     *)
(* CertFlag; beside it the model keeps the values set and the values       *)
(* handed to CertFlag.Set, in order.  Values are sequences of bytes.       *)

\* The file CertFlag.Set can read, and what it holds; no other path is a
\* file.
CertPath == <<99>>

CertContent == <<67>>

\* (flag *CertFlag) Set(val) of the flags library: it reads the file val
\* into the flag.
CertFlagSet(original, val) ==
    IF val = CertPath THEN [original |-> CertContent, err |-> Nil]
    ELSE [original |-> original, err |-> Errorf("failed to read certificate file")]

\* A variant that hands a resolved secret to CertFlag.Set as well.
Set_NoBypass(d, val) ==
    IF HasPrefix(val, secretsPrefix)
    THEN [d EXCEPT !.pendingSecret = TRUE, !.raw = val, !.err = Nil]
    ELSE LET o == CertFlagSet(d.original, val)
         IN [d EXCEPT !.pendingSecret = FALSE, !.raw = <<>>,
                      !.original = o.original,
                      !.delegated = Append(@, val), !.err = o.err]

\* (d *deferredCertValue) Set(val): d after the call, with the error it
\* returns in err.
Set(d, val) ==
    IF HasPrefix(val, secretsPrefix)
    THEN [d EXCEPT !.pendingSecret = TRUE, !.raw = val, !.err = Nil]
    ELSE IF d.pendingSecret
    THEN [d EXCEPT !.pendingSecret = FALSE, !.raw = <<>>, !.original = val, !.err = Nil]
    ELSE LET o == CertFlagSet(d.original, val)
         IN [d EXCEPT !.original = o.original,
                      !.delegated = Append(@, val), !.err = o.err]

\* (d *deferredCertValue) String()
String(d) == IF d.raw # <<>> THEN d.raw ELSE d.original

\* WrapCertFlagsForSecrets: the wrapper it puts around a CertFlag.
WrapCertFlagsForSecrets(cert) ==
    [pendingSecret |-> FALSE, raw |-> <<>>, original |-> cert,
     delegated |-> <<>>, err |-> Nil]

\* The values set: two references, the bare prefix, the path of the file,
\* a path of no file, a certificate and the empty string.
CertValues ==
    { secretsPrefix \o <<97>>, secretsPrefix \o <<98>>, secretsPrefix,
      CertPath, <<109>>, <<80>>, <<>> }

\* At most MaxSets calls of Set.
MaxSets == 4

----------------------------------------------------------------------------
(* The predicates the command layer derives from a Backup                  *)

\* A variant that clears the target of a resumed backup too.
ShouldClearTarget_IgnoresContinue(bk) == bk.RemoveFiles \/ bk.RemoveArtifacts

\* (b *Backup) ShouldClearTarget()
ShouldClearTarget(bk) == (bk.RemoveFiles \/ bk.RemoveArtifacts) /\ bk.Continue = ""

\* (b *Backup) ShouldSaveState()
ShouldSaveState(bk) == bk.StateFileDst # "" \/ bk.Continue # ""

\* (p *BackupServiceConfig) IsContinue()
IsContinue(p) == p.Backup # NilPtr /\ p.Backup.Continue # ""

\* The Backups the predicates are asked about.
TargetBackups ==
    [ RemoveFiles : BOOLEAN, RemoveArtifacts : BOOLEAN,
      Continue : {"", "continue.state", " "},
      StateFileDst : {"", "state.asb"} ]

----------------------------------------------------------------------------
(* logging Config.Validate                                                 *)
(* A level is a sequence of bytes.                                         *)

\* const defaultLogLevel = "info"
defaultLogLevel == <<105, 110, 102, 111>>

\* validLevelStrings: debug, info, warn, error
validLevelStrings ==
    { <<100, 101, 98, 117, 103>>,
      <<105, 110, 102, 111>>,
      <<119, 97, 114, 110>>,
      <<101, 114, 114, 111, 114>> }

\* (c *Config) Validate(): the Level it leaves in c and the error it
\* returns.  lvl is not assigned again after the default is stored.
LogValidate(c) ==
    LET lvl == ToLower(TrimSpace(c.Level))
        c1 == IF lvl = <<>> THEN [c EXCEPT !.Level = defaultLogLevel] ELSE c
    IN IF lvl \notin validLevelStrings
       THEN [ c |-> c1,
              err |-> ErrorfArgs("invalid log level %q (valid: debug, info, warn, error)",
                                 -1, -1, <<c1.Level>>) ]
       ELSE [c |-> [c1 EXCEPT !.Level = lvl], err |-> Nil]

\* The levels under test: the four valid ones, none, and two that are
\* not levels, in lower case, upper case and capitalised, bare and with
\* white space before, after and around.
LogLevels ==
    LET words == validLevelStrings \cup { <<>>, <<116, 114, 97, 99, 101>>, <<105, 110, 102>> }
        Upper(s) == [i \in DOMAIN s |-> IF s[i] \in 97..122 THEN s[i] - 32 ELSE s[i]]
        Cased(s) == { s, Upper(s),
                      [i \in DOMAIN s |-> IF i = 1 THEN Upper(s)[i] ELSE s[i]] }
        Spaced(s) == { s, <<32>> \o s, s \o <<9, 10>>, <<32, 32>> \o s \o <<32>> }
    IN UNION { Spaced(t) : t \in UNION { Cased(w) : w \in words } }

----------------------------------------------------------------------------
(* The state machine                                                       *)

Calls == {"Backup.Validate", "Restore.Validate", "validateFilePrefix",
          "validatePartitionFilters", "Restore.NamespaceConfig",
          "validateStorages", "ValidateStorages", "NewBackupConfigs",
          "newBackupConfig", "Backup.ScanPolicy", "Merge",
          "parseLocalTimeToUTC",
          "Validate",
          "PreRun", "PreRunGetSecret", "resolveSecretFields",
          "Assemble",
          "deferredCertValue.Set",
          "ShouldClearTarget", "ShouldSaveState", "IsContinue",
          "logging.Config.Validate"}

InitBackup ==
    /\ call = "Backup.Validate"
    /\ pc = "start"
    /\ b \in BackupInputs
    /\ r = ZeroRestore
    /\ partitionFilters = <<>>
    /\ prefix = <<>>
    /\ params = Unused
    /\ ret = Unused
    /\ err = Nil

InitRestore ==
    /\ call = "Restore.Validate"
    /\ pc = "start"
    /\ b = ZeroBackup
    /\ r \in RestoreInputs
    /\ partitionFilters = <<>>
    /\ prefix = <<>>
    /\ params = Unused
    /\ ret = Unused
    /\ err = Nil

InitPrefix ==
    /\ call = "validateFilePrefix"
    /\ pc = "start"
    /\ b = ZeroBackup
    /\ r = ZeroRestore
    /\ partitionFilters = <<>>
    /\ prefix \in PrefixInputs
    /\ params = Unused
    /\ ret = Unused
    /\ err = Nil

InitFilters ==
    /\ call = "validatePartitionFilters"
    /\ pc = "start"
    /\ b = ZeroBackup
    /\ r = ZeroRestore
    /\ partitionFilters \in PartitionFilterInputs
    /\ prefix = <<>>
    /\ params = Unused
    /\ ret = Unused
    /\ err = Nil

\* The calls below leave the option models of the calls above at their zero
\* value.
ZeroModels ==
    /\ b = ZeroBackup
    /\ r = ZeroRestore
    /\ partitionFilters = <<>>
    /\ prefix = <<>>

InitNamespace ==
    /\ call = "Restore.NamespaceConfig"
    /\ pc = "start"
    /\ ZeroModels
    /\ params \in NamespaceInputs
    /\ ret = Unused
    /\ err = Nil

\* Either copy of the storage validation is about to be called.
InitStorages ==
    /\ call \in {"validateStorages", "ValidateStorages"}
    /\ pc = "start"
    /\ ZeroModels
    /\ params \in StoragesInputs(MaxStorageFlags)
    /\ ret = Unused
    /\ err = Nil

InitAssembly ==
    /\ call = "NewBackupConfigs"
    /\ pc = "start"
    /\ ZeroModels
    /\ params \in ServiceConfigs(MaxAssemblyFlags)
    /\ ret = Unused
    /\ err = Nil

\* newBackupConfig called by itself, on a Backup with one field fewer off
\* its zero value.
InitMapConfig ==
    /\ call = "newBackupConfig"
    /\ pc = "start"
    /\ ZeroModels
    /\ params \in ServiceConfigs(MaxAssemblyFlags - 1)
    /\ ret = Unused
    /\ err = Nil

InitMerge ==
    /\ call = "Merge"
    /\ pc = "start"
    /\ ZeroModels
    /\ params \in MergeInputs(MaxMergedOptions)
    /\ ret = Unused
    /\ err = Nil

InitParseTime ==
    /\ call = "parseLocalTimeToUTC"
    /\ pc = "start"
    /\ ZeroModels
    /\ params \in [timeString : TimeStrings, today : Todays]
    /\ ret = Unused
    /\ err = Nil

InitValidate ==
    /\ call = "Validate"
    /\ pc = "start"
    /\ ZeroModels
    /\ \E g \in DOMAIN Receivers :
           params \in [group : {g}, receiver : Receivers[g], isBackup : BOOLEAN]
    /\ ret = Unused
    /\ err = Nil

InitSecrets ==
    /\ pc = "start"
    /\ ZeroModels
    /\ \/ /\ call = "PreRun"
          /\ \E S \in SubsetsUpTo(DOMAIN flagsToPreload, MaxSecretFlags) :
                 \E f \in [S -> SecretValues] :
                     params = FlagSet(Len(flagsToPreload), S, f)
       \/ /\ call = "PreRunGetSecret"
          /\ \E S \in SubsetsUpTo(DOMAIN flagsToPreloadGetSecret, MaxSecretFlags) :
                 \E f \in [S -> SecretValues] :
                     params = FlagSet(Len(flagsToPreloadGetSecret), S, f)
       \/ /\ call = "resolveSecretFields"
          /\ params \in FieldLists(MaxFields)
    /\ ret = Unused
    /\ err = Nil

InitFrame ==
    /\ call = "Assemble"
    /\ pc = "start"
    /\ ZeroModels
    /\ \E c \in ServiceConfigs(MaxFrameFlags), s \in SecretAgents :
           params = [SecretAgent |-> s] @@ c
    /\ ret = Unused
    /\ err = Nil

\* params holds the values set so far, ret the deferredCertValue.
InitCert ==
    /\ call = "deferredCertValue.Set"
    /\ pc = "start"
    /\ ZeroModels
    /\ params = <<>>
    /\ ret = WrapCertFlagsForSecrets(<<>>)
    /\ err = Nil

InitTarget ==
    /\ pc = "start"
    /\ ZeroModels
    /\ \/ /\ call \in {"ShouldClearTarget", "ShouldSaveState"}
          /\ params \in [Backup : TargetBackups]
       \/ /\ call = "IsContinue"
          /\ params \in [Backup : TargetBackups \cup {NilPtr}]
    /\ ret = Unused
    /\ err = Nil

InitLogging ==
    /\ call = "logging.Config.Validate"
    /\ pc = "start"
    /\ ZeroModels
    /\ params \in [Level : LogLevels, Verbose : BOOLEAN]
    /\ ret = Unused
    /\ err = Nil

InitScanPolicy ==
    /\ call = "Backup.ScanPolicy"
    /\ pc = "start"
    /\ ZeroModels
    /\ params \in ScanPolicyInputs
    /\ ret = Unused
    /\ err = Nil

Init ==
    \/ InitBackup
    \/ InitRestore
    \/ InitPrefix
    \/ InitFilters
    \/ InitNamespace
    \/ InitStorages
    \/ InitAssembly
    \/ InitMapConfig
    \/ InitMerge
    \/ InitLogging
    \/ InitTarget
    \/ InitCert
    \/ InitFrame
    \/ InitSecrets
    \/ InitValidate
    \/ InitParseTime
    \/ InitScanPolicy

\* b.Validate()
DoBackupValidate ==
    /\ call = "Backup.Validate"
    /\ pc = "start"
    /\ err' = BackupValidate(b)
    /\ pc' = "done"
    /\ UNCHANGED <<call, b, r, partitionFilters, prefix, params, ret>>

\* r.Validate()
DoRestoreValidate ==
    /\ call = "Restore.Validate"
    /\ pc = "start"
    /\ err' = RestoreValidate(r)
    /\ pc' = "done"
    /\ UNCHANGED <<call, b, r, partitionFilters, prefix, params, ret>>

\* validateFilePrefix(prefix)
DoValidateFilePrefix ==
    /\ call = "validateFilePrefix"
    /\ pc = "start"
    /\ err' = validateFilePrefix(prefix)
    /\ pc' = "done"
    /\ UNCHANGED <<call, b, r, partitionFilters, prefix, params, ret>>

\* validatePartitionFilters(partitionFilters)
DoValidatePartitionFilters ==
    /\ call = "validatePartitionFilters"
    /\ pc = "start"
    /\ \E e \in validatePartitionFilters(partitionFilters) : err' = e
    /\ pc' = "done"
    /\ UNCHANGED <<call, b, r, partitionFilters, prefix, params, ret>>

\* r.NamespaceConfig()
DoNamespaceConfig ==
    /\ call = "Restore.NamespaceConfig"
    /\ pc = "start"
    /\ ret' = NamespaceConfig(params)
    /\ pc' = "done"
    /\ UNCHANGED <<call, b, r, partitionFilters, prefix, params, err>>

\* validateStorages(isBackup, awsS3, gcpStorage, azureBlob, local)
DoValidateStoragesUnexported ==
    /\ call = "validateStorages"
    /\ pc = "start"
    /\ err' = validateStorages(params.isBackup, params.awsS3, params.gcpStorage,
                               params.azureBlob, params.local)
    /\ pc' = "done"
    /\ UNCHANGED <<call, b, r, partitionFilters, prefix, params, ret>>

\* ValidateStorages(isBackup, awsS3, gcpStorage, azureBlob, local)
DoValidateStorages ==
    /\ call = "ValidateStorages"
    /\ pc = "start"
    /\ err' = ValidateStorages(params.isBackup, params.awsS3, params.gcpStorage,
                               params.azureBlob, params.local)
    /\ pc' = "done"
    /\ UNCHANGED <<call, b, r, partitionFilters, prefix, params, ret>>

\* NewBackupConfigs(serviceConfig, logger): it returns the two configs and
\* the error, or panics.
DoNewBackupConfigs ==
    /\ call = "NewBackupConfigs"
    /\ pc = "start"
    /\ \E o \in NewBackupConfigs(params) :
           IF o = Panic
           THEN ret' = Panic /\ err' = Nil
           ELSE /\ ret' = [ backupConfig |-> o.backupConfig,
                            backupXDRConfig |-> o.backupXDRConfig ]
                /\ err' = o.err
    /\ pc' = "done"
    /\ UNCHANGED <<call, b, r, partitionFilters, prefix, params>>

\* newBackupConfig(config): it returns the config and the error, or panics.
DoNewBackupConfig ==
    /\ call = "newBackupConfig"
    /\ pc = "start"
    /\ \E o \in newBackupConfig(params) :
           IF o = Panic
           THEN ret' = Panic /\ err' = Nil
           ELSE ret' = o.val /\ err' = o.err
    /\ pc' = "done"
    /\ UNCHANGED <<call, b, r, partitionFilters, prefix, params>>

\* The restore options are merged from the flags and the config file.
DoMerge ==
    /\ call = "Merge"
    /\ pc = "start"
    /\ ret' = Merge(params.Flags, params.Config)
    /\ pc' = "done"
    /\ UNCHANGED <<call, b, r, partitionFilters, prefix, params, err>>

\* parseLocalTimeToUTC(timeString)
DoParseLocalTimeToUTC ==
    /\ call = "parseLocalTimeToUTC"
    /\ pc = "start"
    /\ LET o == parseLocalTimeToUTC(params.timeString, params.today) IN
           ret' = o.val /\ err' = o.err
    /\ pc' = "done"
    /\ UNCHANGED <<call, b, r, partitionFilters, prefix, params>>

\* Validate is called on the receiver of an option group; AzureBlob's
\* takes isBackup.  ret holds the panic when the call panics.
DoValidate ==
    /\ call = "Validate"
    /\ pc = "start"
    /\ LET x == params.receiver
           o == CASE params.group = "Backup" -> BackupValidate(x)
                  [] params.group = "Restore" -> RestoreValidate(x)
                  [] params.group = "SecretAgent" -> SecretAgentValidate(x)
                  [] params.group = "AzureBlob" -> AzureBlobValidate(x, params.isBackup)
       IN IF o = Panic THEN ret' = Panic /\ err' = Nil
          ELSE ret' = Unused /\ err' = o
    /\ pc' = "done"
    /\ UNCHANGED <<call, b, r, partitionFilters, prefix, params>>

\* f.PreRun(cmd, sa): ret holds the values of the flags after the call and
\* the secrets handed to the resolver.
DoPreRun ==
    /\ call = "PreRun"
    /\ pc = "start"
    /\ LET o == PreRun(params)
       IN /\ ret' = [values |-> o.values, calls |-> o.calls]
          /\ err' = o.err
    /\ pc' = "done"
    /\ UNCHANGED <<call, b, r, partitionFilters, prefix, params>>

\* f.PreRun(cmd, sa) that resolves with sa.GetSecret.
DoPreRunGetSecret ==
    /\ call = "PreRunGetSecret"
    /\ pc = "start"
    /\ LET o == PreRunGetSecret(params)
       IN /\ ret' = [values |-> o.values, calls |-> o.calls]
          /\ err' = o.err
    /\ pc' = "done"
    /\ UNCHANGED <<call, b, r, partitionFilters, prefix, params>>

\* resolveSecretFields(ctx, saCfg, fields...): ret holds the fields after the
\* call and the secrets handed to the resolver.
DoResolveSecretFields ==
    /\ call = "resolveSecretFields"
    /\ pc = "start"
    /\ LET o == resolveSecretFields([values |-> params, calls |-> <<>>, err |-> Nil], 1)
       IN /\ ret' = [values |-> o.values, calls |-> o.calls]
          /\ err' = o.err
    /\ pc' = "done"
    /\ UNCHANGED <<call, b, r, partitionFilters, prefix, params>>

\* NewBackupConfigs(serviceConfig, logger) on the option models: ret holds
\* what it returned and the option models after the call.
DoAssemble ==
    /\ call = "Assemble"
    /\ pc = "start"
    /\ \E a \in Assemble(params) :
           ret' = [first |-> [out |-> a.out, SecretAgentConfig |-> a.SecretAgentConfig],
                   models |-> a.models]
    /\ pc' = "once"
    /\ UNCHANGED <<call, b, r, partitionFilters, prefix, params, err>>

\* NewBackupConfigs again, on the option models the first call left; a
\* call that panicked is not followed by another.  sort.Slice arranges the
\* same intervals the same way, so an outcome that is possible again is the
\* outcome.
DoAssembleAgain ==
    /\ call = "Assemble"
    /\ pc = "once"
    /\ ret.first.out # Panic
    /\ \E a \in Assemble(ret.models) :
           /\ ret.first.out \in NewBackupConfigs(ret.models) => a.out = ret.first.out
           /\ ret' = [first |-> ret.first,
                      second |-> [out |-> a.out, SecretAgentConfig |-> a.SecretAgentConfig],
                      models |-> a.models]
    /\ pc' = "done"
    /\ UNCHANGED <<call, b, r, partitionFilters, prefix, params, err>>

\* d.Set(val)
DoSet ==
    /\ call = "deferredCertValue.Set"
    /\ Len(params) < MaxSets
    /\ \E val \in CertValues :
           /\ params' = Append(params, val)
           /\ ret' = Set(ret, val)
           /\ err' = Set(ret, val).err
    /\ UNCHANGED <<call, pc, b, r, partitionFilters, prefix>>

\* b.ShouldClearTarget()
DoShouldClearTarget ==
    /\ call = "ShouldClearTarget"
    /\ pc = "start"
    /\ ret' = ShouldClearTarget(params.Backup)
    /\ pc' = "done"
    /\ UNCHANGED <<call, b, r, partitionFilters, prefix, params, err>>

\* b.ShouldSaveState()
DoShouldSaveState ==
    /\ call = "ShouldSaveState"
    /\ pc = "start"
    /\ ret' = ShouldSaveState(params.Backup)
    /\ pc' = "done"
    /\ UNCHANGED <<call, b, r, partitionFilters, prefix, params, err>>

\* p.IsContinue()
DoIsContinue ==
    /\ call = "IsContinue"
    /\ pc = "start"
    /\ ret' = IsContinue(params)
    /\ pc' = "done"
    /\ UNCHANGED <<call, b, r, partitionFilters, prefix, params, err>>

\* c.Validate(): ret holds c after the call.
DoLogValidate ==
    /\ call = "logging.Config.Validate"
    /\ pc = "start"
    /\ ret' = LogValidate(params).c
    /\ err' = LogValidate(params).err
    /\ pc' = "done"
    /\ UNCHANGED <<call, b, r, partitionFilters, prefix, params>>

\* b.ScanPolicy()
DoScanPolicy ==
    /\ call = "Backup.ScanPolicy"
    /\ pc = "start"
    /\ ret' = ScanPolicy(params).val
    /\ err' = ScanPolicy(params).err
    /\ pc' = "done"
    /\ UNCHANGED <<call, b, r, partitionFilters, prefix, params>>

Next ==
    \/ DoBackupValidate
    \/ DoRestoreValidate
    \/ DoValidateFilePrefix
    \/ DoValidatePartitionFilters
    \/ DoNamespaceConfig
    \/ DoValidateStoragesUnexported
    \/ DoValidateStorages
    \/ DoNewBackupConfigs
    \/ DoNewBackupConfig
    \/ DoMerge
    \/ DoLogValidate
    \/ DoShouldClearTarget
    \/ DoShouldSaveState
    \/ DoIsContinue
    \/ DoSet
    \/ DoAssemble
    \/ DoAssembleAgain
    \/ DoPreRun
    \/ DoPreRunGetSecret
    \/ DoResolveSecretFields
    \/ DoValidate
    \/ DoParseLocalTimeToUTC
    \/ DoScanPolicy

Spec == Init /\ [][Next]_vars

SpecBackup == InitBackup /\ [][DoBackupValidate]_vars

SpecRestore == InitRestore /\ [][DoRestoreValidate]_vars

SpecPrefix == InitPrefix /\ [][DoValidateFilePrefix]_vars

SpecFilters == InitFilters /\ [][DoValidatePartitionFilters]_vars

SpecNamespace == InitNamespace /\ [][DoNamespaceConfig]_vars

SpecAssembly == InitAssembly /\ [][DoNewBackupConfigs]_vars

\* NewBackupConfigs, and newBackupConfig by itself.
SpecAssemblyFailure ==
    /\ InitAssembly \/ InitMapConfig
    /\ [][DoNewBackupConfigs \/ DoNewBackupConfig]_vars

SpecMerge == InitMerge /\ [][DoMerge]_vars

SpecParseTime == InitParseTime /\ [][DoParseLocalTimeToUTC]_vars

SpecValidate == InitValidate /\ [][DoValidate]_vars

SpecSecrets ==
    InitSecrets /\ [][DoPreRun \/ DoPreRunGetSecret \/ DoResolveSecretFields]_vars

SpecFrame == InitFrame /\ [][DoAssemble \/ DoAssembleAgain]_vars

SpecCert == InitCert /\ [][DoSet]_vars

SpecTarget ==
    InitTarget /\ [][DoShouldClearTarget \/ DoShouldSaveState \/ DoIsContinue]_vars

SpecLogging == InitLogging /\ [][DoLogValidate]_vars

SpecScanPolicy == InitScanPolicy /\ [][DoScanPolicy]_vars

SpecStorages ==
    InitStorages /\ [][DoValidateStoragesUnexported \/ DoValidateStorages]_vars

----------------------------------------------------------------------------
(* Properties of Backup.Validate                                           *)

BackupDone == call = "Backup.Validate" /\ pc = "done"

\* A prefix is unsafe when it holds one of \ / : * ? " < > |, a character
\* 0-31 or the character 127, or starts or ends with whitespace.
UnsafePrefix(p) ==
    \/ \E i \in DOMAIN p : p[i] \in {92, 47, 58, 42, 63, 34, 60, 62, 124}
    \/ \E i \in DOMAIN p : p[i] >= 0 /\ p[i] <= 31
    \/ \E i \in DOMAIN p : p[i] = 127
    \/ p # <<>> /\ (IsSpace(p[1]) \/ IsSpace(p[Len(p)]))

\* The names of the filter types that are set.
FiltersSetOf(bk) ==
    { n \in {"after-digest", "partition-list", "node-list", "rack-list"} :
        \/ n = "after-digest" /\ bk.AfterDigest # ""
        \/ n = "partition-list" /\ bk.PartitionList # ""
        \/ n = "node-list" /\ bk.NodeList # ""
        \/ n = "rack-list" /\ bk.RackList # "" }

\* The checks of Backup.Validate, by their number in the priority list.
Violates(bk, n) ==
    CASE n = 1 -> ~bk.Estimate /\ bk.OutputFile = "" /\ bk.Common.Directory = ""
      [] n = 2 -> bk.OutputFile # "" /\ bk.Common.Directory # ""
      [] n = 3 -> UnsafePrefix(bk.OutputFilePrefix)
      [] n = 4 -> bk.OutputFilePrefix # <<>> /\ bk.OutputFile # ""
      [] n = 5 -> Cardinality(FiltersSetOf(bk)) > 1
      [] n = 6 -> bk.Continue # "" /\ bk.StateFileDst # ""
      [] n = 7 -> bk.Continue # "" /\ bk.RemoveFiles
      [] n = 8 -> bk.MaxRecords # 0 /\ bk.Common.Parallel # 1
      [] n = 9 -> bk.Estimate /\
                    \/ bk.PartitionList # "" \/ bk.NodeList # "" \/ bk.AfterDigest # ""
                    \/ bk.FilterExpression # "" \/ bk.ModifiedAfter # ""
                    \/ bk.ModifiedBefore # "" \/ bk.NoTTLOnly
                    \/ bk.OutputFile # "" \/ bk.Common.Directory # ""
                    \/ bk.EstimateSamples < 0
      [] n = 10 -> CommonValidate(bk.Common) # Nil

\* The lowest-numbered violated check, 0 when there is none.
FirstViolated(bk) ==
    IF \E n \in 1..10 : Violates(bk, n)
      THEN CHOOSE n \in 1..10 : Violates(bk, n) /\ \A m \in 1..(n - 1) : ~Violates(bk, m)
      ELSE 0

NoEarlierViolation(bk) == \A n \in 1..8 : ~Violates(bk, n)

SingleFilterMessages ==
    { "only one of after-digest or partition-list can be configured",
      "only one of after-digest or node-list can be configured",
      "only one of after-digest or rack-list can be configured",
      "only one of partition-list or node-list can be configured",
      "only one of partition-list or rack-list can be configured",
      "only one of node-list or rack-list can be configured",
      "only one of after-digest or partition-list or node-list can be configured",
      "only one of after-digest or partition-list or rack-list can be configured",
      "only one of after-digest or node-list or rack-list can be configured",
      "only one of partition-list or node-list or rack-list can be configured",
      "only one of after-digest or partition-list or node-list or rack-list can be configured" }

EstimateFilterMsg == "estimate with any filter is not allowed"

EstimateOutputMsg == "estimate with output-file or directory is not allowed"

EstimateSamplesMsg == "estimate with estimate-samples < 0 is not allowed"

\* The check an error of Backup.Validate comes from, 0 for the nil error.
CheckOfError(e) ==
    IF e = Nil THEN 0
    ELSE IF e.msg = "must specify either estimate, output-file or directory" THEN 1
    ELSE IF e.msg = "only one of output-file and directory may be configured at the same time"
      THEN 2
    ELSE IF e.msg \in
              { "invalid output-file-prefix: file prefix contains invalid character",
                "invalid output-file-prefix: file prefix contains control character",
                "invalid output-file-prefix: file prefix contains DEL character",
                "invalid output-file-prefix: file prefix cannot start or end with whitespace" }
      THEN 3
    ELSE IF e.msg = "using output-file-prefix is not allowed with output-file" THEN 4
    ELSE IF e.msg \in SingleFilterMessages THEN 5
    ELSE IF e.msg = "continue and state-file-dst are mutually exclusive" THEN 6
    ELSE IF e.msg = "continue and remove-files are mutually exclusive, as remove-files will delete the backup files"
      THEN 7
    ELSE IF e.msg = "max-records must be used with parallel = 1" THEN 8
    ELSE IF e.msg \in {EstimateFilterMsg, EstimateOutputMsg, EstimateSamplesMsg} THEN 9
    ELSE 10

\* C1: Backup.Validate returns the error of the lowest-numbered violated
\* check of the priority list (1) no output target, (2) output-file with
\* directory, (3) unsafe prefix, (4) prefix with output-file, (5) several
\* filter types, (6) continue with state-file-dst, (7) continue with
\* remove-files, (8) max-records with parallel # 1, (9) the estimate block,
\* (10) Common.Validate; it returns nil exactly when no check is violated.
C1_FirstViolationWins ==
    BackupDone =>
        /\ CheckOfError(err) = FirstViolated(b)
        /\ (CheckOfError(err) = 10 => err = CommonValidate(b.Common))

\* Three checks are violated at once (2, 6 and 8) and the error is that of
\* check 2.
C1_Witness ==
    /\ BackupDone
    /\ Violates(b, 2) /\ Violates(b, 6) /\ Violates(b, 8)
    /\ err.msg = "only one of output-file and directory may be configured at the same time"

\* C2: with Estimate set, no earlier check violated and one of
\* partition-list, node-list, after-digest, rack-list, modified-after,
\* modified-before, no-ttl-only, filter-expression set, Backup.Validate
\* returns "estimate with any filter is not allowed".
C2_EstimateForbidsEveryFilter ==
    ( /\ BackupDone
      /\ b.Estimate
      /\ NoEarlierViolation(b)
      /\ \/ b.PartitionList # "" \/ b.NodeList # "" \/ b.AfterDigest # ""
         \/ b.RackList # "" \/ b.ModifiedAfter # "" \/ b.ModifiedBefore # ""
         \/ b.NoTTLOnly \/ b.FilterExpression # "" )
    => err.msg = EstimateFilterMsg

\* C3 as stated: with Estimate set and EstimateSamples < 0 (and none of
\* the checks before the estimate block violated) Backup.Validate returns
\* the samples error, whatever the estimate-with-filter and
\* estimate-with-output checks find.
C3_SamplesCheckedIndependently ==
    (BackupDone /\ b.Estimate /\ b.EstimateSamples < 0 /\ NoEarlierViolation(b))
    => err.msg = EstimateSamplesMsg

\* C3 as amended: with Estimate set and EstimateSamples < 0, Backup.Validate
\* returns the samples error when no earlier check is violated, the
\* estimate-with-filter and estimate-with-output checks of the estimate
\* block included; when one of those two is violated, its error is
\* returned and not the samples error.
C3_SamplesCheckedLast ==
    (BackupDone /\ b.Estimate /\ b.EstimateSamples < 0 /\ NoEarlierViolation(b))
    => LET filter == \/ b.PartitionList # "" \/ b.NodeList # "" \/ b.AfterDigest # ""
                     \/ b.FilterExpression # "" \/ b.ModifiedAfter # ""
                     \/ b.ModifiedBefore # "" \/ b.NoTTLOnly
           output == b.OutputFile # "" \/ b.Common.Directory # ""
       IN  /\ filter => err.msg = EstimateFilterMsg
           /\ ~filter /\ output => err.msg = EstimateOutputMsg
           /\ ~filter /\ ~output => err.msg = EstimateSamplesMsg

\* An estimate with EstimateSamples = -1 and nothing else set was refused
\* with the samples error.
C3_Witness ==
    /\ BackupDone
    /\ b.Estimate /\ b.EstimateSamples = -1
    /\ err.msg = EstimateSamplesMsg

\* C4: every Backup that Backup.Validate accepts has exactly one output
\* target among estimate, output-file and directory.
C4_ExactlyOneOutputTarget ==
    (BackupDone /\ err = Nil)
    => BoolToInt(b.Estimate) + BoolToInt(b.OutputFile # "")
         + BoolToInt(b.Common.Directory # "") = 1

\* An estimate was accepted.
C4_Witness == BackupDone /\ err = Nil /\ b.Estimate

\* The message the single-filter check is to give for a set of filters.
SingleFilterMessage(S) ==
    CASE S = {"after-digest", "partition-list"}
           -> "only one of after-digest or partition-list can be configured"
      [] S = {"after-digest", "node-list"}
           -> "only one of after-digest or node-list can be configured"
      [] S = {"after-digest", "rack-list"}
           -> "only one of after-digest or rack-list can be configured"
      [] S = {"partition-list", "node-list"}
           -> "only one of partition-list or node-list can be configured"
      [] S = {"partition-list", "rack-list"}
           -> "only one of partition-list or rack-list can be configured"
      [] S = {"node-list", "rack-list"}
           -> "only one of node-list or rack-list can be configured"
      [] S = {"after-digest", "partition-list", "node-list"}
           -> "only one of after-digest or partition-list or node-list can be configured"
      [] S = {"after-digest", "partition-list", "rack-list"}
           -> "only one of after-digest or partition-list or rack-list can be configured"
      [] S = {"after-digest", "node-list", "rack-list"}
           -> "only one of after-digest or node-list or rack-list can be configured"
      [] S = {"partition-list", "node-list", "rack-list"}
           -> "only one of partition-list or node-list or rack-list can be configured"
      [] S = {"after-digest", "partition-list", "node-list", "rack-list"}
           -> "only one of after-digest or partition-list or node-list or rack-list can be configured"
      [] OTHER -> "<nil>"

\* C5: the single-filter check fails exactly when two or more of
\* after-digest, partition-list, node-list, rack-list are set, with the
\* message "only one of <names> can be configured" naming the set filters in
\* that order joined by " or "; Backup.Validate returns that error when no
\* earlier check fails, and every Backup it accepts has at most one filter.
C5_SingleFilter ==
    BackupDone =>
        /\ validateSingleFilter(b).msg = SingleFilterMessage(FiltersSetOf(b))
        /\ validateSingleFilter(b) # Nil <=> Cardinality(FiltersSetOf(b)) >= 2
        /\ (\A n \in 1..4 : ~Violates(b, n)) /\ Cardinality(FiltersSetOf(b)) >= 2
             => err = Errorf(SingleFilterMessage(FiltersSetOf(b)))
        /\ err = Nil => Cardinality(FiltersSetOf(b)) <= 1

\* Node-list and rack-list were both set and the error names the two.
C5_Witness ==
    /\ BackupDone
    /\ b.NodeList # "" /\ b.RackList # "" /\ b.AfterDigest = "" /\ b.PartitionList = ""
    /\ err.msg = "only one of node-list or rack-list can be configured"

\* C6: every accepted Backup with Continue set has StateFileDst empty and
\* RemoveFiles false.
C6_ContinueExclusive ==
    (BackupDone /\ err = Nil /\ b.Continue # "")
    => b.StateFileDst = "" /\ ~b.RemoveFiles

\* A Backup with Continue set was accepted.
C6_Witness == BackupDone /\ err = Nil /\ b.Continue # ""

----------------------------------------------------------------------------
(* Properties of Restore.Validate                                          *)

RestoreDone == call = "Restore.Validate" /\ pc = "done"

\* How many of input-file, directory and directory-list are set.
InputSources(rs) ==
    BoolToInt(rs.InputFile # "") + BoolToInt(rs.Common.Directory # "")
      + BoolToInt(rs.DirectoryList # "")

\* A Restore-specific check fails: mode, input source, parent-directory or
\* warm-up.
RestoreSpecificViolation(rs) ==
    \/ rs.Mode \notin {"auto", "asb", "asbx"}
    \/ InputSources(rs) # 1
    \/ rs.ParentDirectory # "" /\ rs.DirectoryList = ""
    \/ rs.WarmUp < 0

\* C7: every Restore with ValidateOnly = false that Restore.Validate accepts
\* has Mode in {auto, asb, asbx}, exactly one of input-file, directory,
\* directory-list set, parent-directory set only with directory-list, and
\* WarmUp >= 0.
C7_AcceptedRestore ==
    (RestoreDone /\ err = Nil /\ ~r.ValidateOnly)
    => /\ r.Mode \in {"auto", "asb", "asbx"}
       /\ InputSources(r) = 1
       /\ (r.ParentDirectory # "" => r.DirectoryList # "")
       /\ r.WarmUp >= 0

\* A restore from a directory list under a parent directory was accepted.
C7_Witness ==
    /\ RestoreDone /\ err = Nil /\ ~r.ValidateOnly
    /\ r.DirectoryList # "" /\ r.ParentDirectory # ""

\* C8: with ValidateOnly = true Restore.Validate skips Common.Validate (a
\* missing namespace is accepted) and still applies every Restore-specific
\* check; with ValidateOnly = false a Restore whose only defect is a Common
\* violation gets the Common.Validate error ("namespace is required").
C8_ValidateOnlySkipsCommon ==
    RestoreDone =>
        /\ r.ValidateOnly => (err = Nil <=> ~RestoreSpecificViolation(r))
        /\ RestoreSpecificViolation(r) => err # Nil /\ err # CommonValidate(r.Common)
        /\ (~r.ValidateOnly /\ ~RestoreSpecificViolation(r))
             => err = CommonValidate(r.Common)
        /\ (~r.ValidateOnly /\ ~RestoreSpecificViolation(r) /\ r.Common.Namespace = "")
             => err.msg = "namespace is required"

\* A validate-only restore without a namespace was accepted.
C8_Witness ==
    /\ RestoreDone /\ r.ValidateOnly /\ r.Common.Namespace = ""
    /\ err = Nil

----------------------------------------------------------------------------
(* Properties of validatePartitionFilters                                  *)

FiltersDone == call = "validatePartitionFilters" /\ pc = "done"

\* The partitions of a filter: the closed interval [begin, begin+count-1].
Partitions(f) == f.Begin .. (f.Begin + f.Count - 1)

\* Two filters with count = 1 have the same begin.
DuplicatePoint(pf) ==
    \E i, j \in DOMAIN pf :
        i # j /\ pf[i].Count = 1 /\ pf[j].Count = 1 /\ pf[i].Begin = pf[j].Begin

\* Two filters with count > 1 share a partition.
OverlappingRanges(pf) ==
    \E i, j \in DOMAIN pf :
        i # j /\ pf[i].Count > 1 /\ pf[j].Count > 1
              /\ Partitions(pf[i]) \cap Partitions(pf[j]) # {}

InvalidCount(pf) == \E i \in DOMAIN pf : pf[i].Count <= 0

\* Every ordering of a list.
Orderings(s) == { [i \in DOMAIN s |-> s[p[i]]] : p \in Permutations(DOMAIN s) }

\* C9: validatePartitionFilters rejects a list with two count = 1 filters
\* of the same begin, with two count > 1 filters whose closed intervals
\* share a partition, or with a filter of count <= 0; it accepts every
\* other list; and the verdict is the same for every ordering of the list.
C9_PartitionFilterVerdict ==
    FiltersDone =>
        /\ DuplicatePoint(partitionFilters) => err # Nil
        /\ OverlappingRanges(partitionFilters) => err # Nil
        /\ InvalidCount(partitionFilters) => err # Nil
        /\ ( ~DuplicatePoint(partitionFilters) /\ ~OverlappingRanges(partitionFilters)
             /\ ~InvalidCount(partitionFilters) ) => err = Nil
        /\ \A q \in Orderings(partitionFilters) :
             \A e \in validatePartitionFilters(q) : (e = Nil) <=> (err = Nil)

\* Two disjoint ranges given in descending order, with a point filter, were
\* accepted.
C9_Witness ==
    /\ FiltersDone /\ err = Nil
    /\ Len(partitionFilters) = 3
    /\ partitionFilters[1].Count > 1 /\ partitionFilters[2].Count > 1
    /\ partitionFilters[2].Begin < partitionFilters[1].Begin
    /\ partitionFilters[3].Count = 1

----------------------------------------------------------------------------
(* Properties of validateFilePrefix                                        *)

PrefixDone == call = "validateFilePrefix" /\ pc = "done"

\* C10: validateFilePrefix rejects a prefix exactly when it holds one of
\* \ / : * ? " < > |, a character 0-31 or the character 127, or starts or
\* ends with whitespace; the empty prefix and prefixes with internal spaces,
\* '.', '-', '_' and alphanumerics are accepted.
C10_FilePrefixVerdict ==
    PrefixDone => (err # Nil <=> UnsafePrefix(prefix))

\* The prefix "a 1" (an internal space) was accepted.
C10_Witness == PrefixDone /\ prefix = <<97, 32, 49>> /\ err = Nil

----------------------------------------------------------------------------
(* Properties of Restore.NamespaceConfig                                   *)

NamespaceDone == call = "Restore.NamespaceConfig" /\ pc = "done"

\* The number of commas of s.
Commas(s) == Cardinality({ i \in DOMAIN s : s[i] = Comma })

\* The tokens of a namespace option are the comma-separated fields of a
\* non-empty string: one more than it has commas.
Tokens(s) == IF s = <<>> THEN 0 ELSE Commas(s) + 1

\* C11: a namespace option of one token yields source = destination = that
\* token; one of two comma-separated tokens yields the first as source and
\* the second as destination; three or more tokens, and the empty string,
\* yield nil.
C11_NamespaceConfig ==
    NamespaceDone =>
        LET s == params.Namespace IN
        /\ Tokens(s) = 1 => ret = [Source |-> s, Destination |-> s]
        /\ Tokens(s) = 2 =>
               \E k \in DOMAIN s :
                   /\ s[k] = Comma
                   /\ ret = [Source |-> SubSeq(s, 1, k - 1),
                             Destination |-> SubSeq(s, k + 1, Len(s))]
        /\ (Tokens(s) >= 3 \/ s = <<>>) => ret = NilPtr

\* "a,b" has been mapped to source "a" and destination "b".
C11_Witness ==
    /\ NamespaceDone
    /\ params.Namespace = <<97, 44, 98>>
    /\ ret = [Source |-> <<97>>, Destination |-> <<98>>]

----------------------------------------------------------------------------
(* Properties of the storage validation                                    *)

StoragesDone == call \in {"validateStorages", "ValidateStorages"} /\ pc = "done"

OnlyOneProvider == Errorf("only one cloud provider can be configured")

\* AWS S3 configured by its bucket name and by nothing else.
BucketOnly(a) ==
    /\ a # NilPtr
    /\ a.BucketName # ""
    /\ a.Region = "" /\ a.Profile = "" /\ a.Endpoint = ""

\* Azure Blob configured by its container name and by nothing else.
ContainerOnly(a) ==
    /\ a # NilPtr
    /\ a.ContainerName # ""
    /\ a.AccountName = "" /\ a.AccountKey = "" /\ a.Endpoint = ""
    /\ a.TenantID = "" /\ a.ClientID = "" /\ a.ClientSecret = ""

\* A provider is configured when it is there and an identifying field of
\* it is set.
Configured(p) ==
    { n \in {"aws", "gcp", "azure"} :
        \/ /\ n = "aws" /\ p.awsS3 # NilPtr
           /\ \E f \in {"BucketName", "Region", "Profile", "Endpoint"} :
                  p.awsS3[f] # ""
        \/ /\ n = "gcp" /\ p.gcpStorage # NilPtr
           /\ \E f \in {"BucketName", "KeyFile", "Endpoint"} :
                  p.gcpStorage[f] # ""
        \/ /\ n = "azure" /\ p.azureBlob # NilPtr
           /\ \E f \in {"ContainerName", "AccountName", "AccountKey", "Endpoint",
                        "TenantID", "ClientID", "ClientSecret"} :
                  p.azureBlob[f] # "" }

\* The options of a provider are ones its own validation accepts.
Accepted(p, n) ==
    CASE n = "local" -> p.local.Verdict = Nil
      [] n = "aws" -> p.awsS3.Verdict = Nil
      [] n = "gcp" -> p.gcpStorage.Verdict = Nil
      [] n = "azure" ->
            LET a == p.azureBlob IN
            /\ a.ContainerName # "" /\ a.Endpoint # ""
            /\ a.RetryMaxAttempts >= 0 /\ a.RetryDelay >= 0
            /\ a.RetryMaxDelay >= 0
            /\ p.isBackup => (a.BlockSize >= 1 /\ a.UploadConcurrency >= 1)
            /\ ~p.isBackup => a.RestorePollDuration >= 1
            /\ a.StorageCommon.Verdict = Nil

\* Local, if present, and every configured provider are accepted.
AllAccepted(p) ==
    /\ p.local # NilPtr => Accepted(p, "local")
    /\ \A n \in Configured(p) : Accepted(p, n)

\* C12 as stated: S3 by bucket name only together with Azure by container
\* name only is refused with "only one cloud provider can be configured",
\* and Local with exactly one configured cloud provider is accepted (their
\* options being ones their validations accept).
C12_BucketAndContainerOnly ==
    StoragesDone =>
        /\ (BucketOnly(params.awsS3) /\ ContainerOnly(params.azureBlob))
               => err = OnlyOneProvider
        /\ ( /\ params.local # NilPtr
             /\ Cardinality(Configured(params)) = 1
             /\ AllAccepted(params) )
               => err = Nil

\* C12, amended: each configured provider is validated before the providers
\* are counted.  S3 by bucket name only together with Azure by container
\* name only is refused, never with "only one cloud provider can be
\* configured": with the error of an earlier validation or, when those pass,
\* with "failed to validate azure blob: endpoint is required".  S3 and Azure
\* both configured with options their own validations accept are refused with
\* "only one cloud provider can be configured".  Local with exactly one
\* configured cloud provider is accepted when the validations of both
\* accept them.
C12_ExclusivityAfterValidation ==
    StoragesDone =>
        /\ (BucketOnly(params.awsS3) /\ ContainerOnly(params.azureBlob)) =>
               /\ err # Nil
               /\ err # OnlyOneProvider
               /\ ( /\ params.local # NilPtr => Accepted(params, "local")
                    /\ Accepted(params, "aws")
                    /\ "gcp" \in Configured(params) => Accepted(params, "gcp") )
                  => err = Wrap("failed to validate azure blob",
                                Errorf("endpoint is required"))
        /\ ({"aws", "azure"} \subseteq Configured(params) /\ AllAccepted(params))
               => err = OnlyOneProvider
        /\ ( /\ params.local # NilPtr
             /\ Cardinality(Configured(params)) = 1
             /\ AllAccepted(params) )
               => err = Nil

\* S3 by bucket name only and Azure by container name only have been
\* refused because Azure has no endpoint.
C12_Witness ==
    /\ StoragesDone
    /\ BucketOnly(params.awsS3) /\ ContainerOnly(params.azureBlob)
    /\ err = Wrap("failed to validate azure blob", Errorf("endpoint is required"))

\* The errors that AzureBlob.Validate can answer.
AzureBlobErrors ==
    { Errorf(m) : m \in { "container name is required", "endpoint is required",
                          "retry maximum attempts must be non-negative",
                          "retry delay must be non-negative",
                          "retry max delay must be non-negative",
                          "block size can't be less than 1",
                          "upload concurrency can't be less than 1",
                          "restore poll duration can't be less than 1" } }
    \cup {Refused}

\* The errors with which the validation of provider n is reported.
ProviderErrors(n) ==
    CASE n = "aws" -> {Wrap("failed to validate aws s3", Refused)}
      [] n = "gcp" -> {Wrap("failed to validate gcp storage", Refused)}
      [] n = "azure" ->
            { Wrap("failed to validate azure blob", e) : e \in AzureBlobErrors }

\* C13: a cloud provider is validated and counted only when it is non-nil
\* and one of its identifying fields is set: the error of a provider's
\* validation is returned only for a configured provider, and a configured
\* provider that its validation refuses makes the validation fail.  The
\* other fields of an unconfigured provider cause no failure.  Local, when
\* present, is always validated and never counted.  "only one cloud provider
\* can be configured" is returned only when two or more providers are
\* configured, and is returned when all of them pass their validation.
C13_ConfiguredProvidersOnly ==
    StoragesDone =>
        LET on == Configured(params) IN
        /\ \A n \in {"aws", "gcp", "azure"} :
               /\ err \in ProviderErrors(n) => n \in on
               /\ (n \in on /\ ~Accepted(params, n)) => err # Nil
        /\ ( /\ Cardinality(on) <= 1
             /\ AllAccepted(params) )
               => err = Nil
        /\ (params.local # NilPtr /\ ~Accepted(params, "local"))
               => err = Wrap("failed to validate local storage", Refused)
        /\ err = OnlyOneProvider => Cardinality(on) >= 2
        /\ (Cardinality(on) >= 2 /\ AllAccepted(params)) => err = OnlyOneProvider

\* An Azure option model with a negative retry delay and no identifying
\* field was there, S3 was configured, and the validation passed.
C13_Witness ==
    /\ StoragesDone
    /\ params.azureBlob # NilPtr
    /\ "azure" \notin Configured(params)
    /\ params.azureBlob.RetryDelay < 0
    /\ Configured(params) = {"aws"}
    /\ params.local # NilPtr
    /\ err = Nil

----------------------------------------------------------------------------
(* Properties of the assembler                                             *)

AssemblyDone == call = "NewBackupConfigs" /\ pc = "done"

\* The call returned, with or without an error.
Returned == AssemblyDone /\ ret # Panic

\* Regular-mode assembly that returned a config.
RegularDone ==
    /\ Returned
    /\ params.Backup # NilPtr
    /\ err = Nil

\* C14: XDR mode is selected exactly when BackupXDR is present and Backup is
\* absent: then a non-nil XDR config is returned with a regular config that
\* has NoRecords = true and the namespace of the XDR options.  Whenever
\* Backup is present, with or without BackupXDR, the XDR config is nil and
\* the regular config, when one is returned, is built from Backup.
C14_XDRModeSelection ==
    AssemblyDone =>
        LET xdrMode == params.BackupXDR # NilPtr /\ params.Backup = NilPtr IN
        /\ xdrMode =>
               /\ Returned /\ err = Nil
               /\ ret.backupXDRConfig # NilPtr
               /\ ret.backupXDRConfig.Namespace = params.BackupXDR.Namespace
               /\ ret.backupConfig # NilPtr
               /\ ret.backupConfig.NoRecords = TRUE
               /\ ret.backupConfig.Namespace = params.BackupXDR.Namespace
        /\ params.Backup # NilPtr =>
               /\ Returned
               /\ ret.backupXDRConfig = NilPtr
               /\ err = Nil =>
                      /\ ret.backupConfig # NilPtr
                      /\ ret.backupConfig.Namespace = params.Backup.Namespace
                      /\ ret.backupConfig.NoRecords = params.Backup.NoRecords
                      /\ ret.backupConfig.ParallelRead = params.Backup.Parallel
        /\ Returned => (ret.backupXDRConfig # NilPtr <=> xdrMode)

\* Backup and BackupXDR were both present and a regular config was built
\* from Backup.
C14_Witness ==
    /\ RegularDone
    /\ params.BackupXDR # NilPtr
    /\ params.Backup.Namespace = "test-namespace"
    /\ ret.backupXDRConfig = NilPtr
    /\ ret.backupConfig.Namespace = "test-namespace"

\* C15: in regular-mode assembly a single output file, stdout included,
\* forces FileLimit = 0 and ParallelWrite = 1 whatever file-limit and
\* parallel are, and ParallelRead keeps the configured parallel; without an
\* output file ParallelWrite = ParallelRead = the configured parallel.
C15_SingleFileOutput ==
    RegularDone =>
        LET bk == params.Backup
            c == ret.backupConfig
        IN /\ bk.OutputFile # "" =>
                  /\ c.FileLimit = <<0, 0, 0, 0>>
                  /\ c.ParallelWrite = 1
                  /\ c.ParallelRead = bk.Parallel
           /\ bk.OutputFile = "" =>
                  /\ c.ParallelWrite = bk.Parallel
                  /\ c.ParallelRead = bk.Parallel

\* A backup to the file "out.asb" with parallel 8 and a file limit of 1000
\* MiB was assembled with ParallelWrite 1 and no file limit.
C15_Witness ==
    /\ RegularDone
    /\ params.Backup.OutputFile = "out.asb"
    /\ params.Backup.Parallel = 8
    /\ params.Backup.FileLimit = <<1000, 0, 0, 0>>
    /\ ret.backupConfig.ParallelWrite = 1
    /\ ret.backupConfig.ParallelRead = 8
    /\ ret.backupConfig.FileLimit = <<0, 0, 0, 0>>

\* m * 2^20 in six limbs, for an m of four limbs: m * 16, moved up by one
\* limb.
ExactMiB(m) == <<0>> \o MulCarry(m \o <<0>>, 16, 1, 0)

\* The low four limbs of a six-limb number, and whether it has no more.
Low64(e) == SubSeq(e, 1, 4)

FitsUint64(e) == e[5] = 0 /\ e[6] = 0

\* An int64 is negative when its top bit is set.
IsNeg(x) == x[4] >= 32768

\* x + 1 in the width of x.
RECURSIVE AddOne(_, _)
AddOne(x, i) ==
    IF i > Len(x) THEN x
    ELSE IF x[i] = 65535 THEN AddOne([x EXCEPT ![i] = 0], i + 1)
    ELSE [x EXCEPT ![i] = x[i] + 1]

\* -x in two's complement.
Neg64(x) == AddOne([i \in DOMAIN x |-> 65535 - x[i]], 1)

\* |m| * 2^20 for an int64 m.
ExactMagnitude(m) == ExactMiB(IF IsNeg(m) THEN Neg64(m) ELSE m)

\* m * 2^20 is an int64: the magnitude is below 2^63, or is 2^63 and m is
\* negative.
FitsInt64(m) ==
    LET e == ExactMagnitude(m) IN
    /\ FitsUint64(e)
    /\ \/ e[4] < 32768
       \/ IsNeg(m) /\ Low64(e) = <<0, 0, 0, 32768>>

\* m * 2^20 as an int64.
ProductInt64(m) ==
    IF IsNeg(m) THEN Neg64(Low64(ExactMagnitude(m))) ELSE Low64(ExactMagnitude(m))

\* C16: for every bandwidth or file limit m in MiB whose product fits the
\* width of the field, the assembled config holds exactly m * 1024 * 1024:
\* Bandwidth (int64) of the regular config, FileLimit (uint64) of the
\* regular config when the output is a directory, and FileLimit (uint64) of
\* the XDR config.
C16_MiBToBytes ==
    (Returned /\ err = Nil) =>
        /\ params.Backup # NilPtr =>
               LET bk == params.Backup
                   c == ret.backupConfig
               IN /\ FitsInt64(bk.Bandwidth) => c.Bandwidth = ProductInt64(bk.Bandwidth)
                  /\ (bk.OutputFile = "" /\ FitsUint64(ExactMiB(bk.FileLimit)))
                         => c.FileLimit = Low64(ExactMiB(bk.FileLimit))
        /\ (params.Backup = NilPtr /\ FitsUint64(ExactMiB(params.BackupXDR.FileLimit)))
               => ret.backupXDRConfig.FileLimit
                      = Low64(ExactMiB(params.BackupXDR.FileLimit))

\* The largest file limit that fits, 2^44 - 1 MiB, was assembled as
\* 2^64 - 2^20 bytes.
C16_Witness ==
    /\ RegularDone
    /\ params.Backup.OutputFile = ""
    /\ params.Backup.FileLimit = <<65535, 65535, 4095, 0>>
    /\ ret.backupConfig.FileLimit = <<0, 65520, 65535, 65535>>

\* directory/file
Joined(dir, file) == IF dir = "" THEN file ELSE dir \o "/" \o file

\* C17: in regular-mode assembly a continue token gives StateFile =
\* directory/continue-token, the Continue flag and PageSize = scan-page-size;
\* a state-file-dst gives StateFile = directory/state-file-dst, no Continue
\* flag and PageSize = scan-page-size; neither gives an empty StateFile and
\* no Continue flag.  (A continue token and a state-file-dst are mutually
\* exclusive.)
C17_StateFile ==
    RegularDone =>
        LET bk == params.Backup
            c == ret.backupConfig
        IN /\ (bk.Continue # "" /\ bk.StateFileDst = "") =>
                  /\ c.StateFile = Joined(bk.Directory, bk.Continue)
                  /\ c.Continue = TRUE
                  /\ c.PageSize = bk.ScanPageSize
           /\ (bk.StateFileDst # "" /\ bk.Continue = "") =>
                  /\ c.StateFile = Joined(bk.Directory, bk.StateFileDst)
                  /\ c.Continue = FALSE
                  /\ c.PageSize = bk.ScanPageSize
           /\ (bk.Continue = "" /\ bk.StateFileDst = "") =>
                  /\ c.StateFile = ""
                  /\ c.Continue = FALSE

\* A backup continued from "continue.state" in "/backup/dir" with a scan
\* page size of 5000 was assembled.
C17_Witness ==
    /\ RegularDone
    /\ params.Backup.Continue = "continue.state"
    /\ params.Backup.Directory = "/backup/dir"
    /\ params.Backup.ScanPageSize = 5000
    /\ ret.backupConfig.StateFile = "/backup/dir/continue.state"
    /\ ret.backupConfig.Continue = TRUE
    /\ ret.backupConfig.PageSize = 5000

\* The inputs of the Backup under test that an assembly step refuses:
\* the rack lists "x", "-1" and "1000001", the digest "invalid-digest", the
\* partition lists "invalid", "1,1" (a partition twice) and "0-3,2-2"
\* (overlapping ranges), the filter expression "invalid-exp", and the time
\* strings "invalid-date" and "2023-13-01".
MalformedRackLists == {<<120>>, <<45, 49>>, <<49, 48, 48, 48, 48, 48, 49>>}

MalformedPartitionLists == {"invalid", "1,1", "0-3,2-2"}

MalformedTimes == {<<105, 110, 118, 97, 108, 105, 100, 45, 100, 97, 116, 101>>, <<50, 48, 50, 51, 45, 49, 51, 45, 48, 49>>}

Malformed(bk) ==
    \/ bk.RackList \in MalformedRackLists
    \/ bk.AfterDigest = "invalid-digest"
    \/ (bk.AfterDigest = "" /\ bk.PartitionList \in MalformedPartitionLists)
    \/ bk.FilterExpression = "invalid-exp"
    \/ bk.ModifiedBefore \in MalformedTimes
    \/ bk.ModifiedAfter \in MalformedTimes

\* What follows "failed to map backup config: " in the message of an
\* assembly error.
AssemblyFailures ==
    { "failed to parse racks: strconv.Atoi: parsing %q: invalid syntax",
      "rack id %d invalid, should be non-negative number",
      "rack id %d invalid, should not exceed %d",
      "failed to parse after digest filter: failed to decode after-digest",
      "failed to parse partition filter list: invalid partition filter",
      "failed to validate partition filters: duplicate begin value for count = 1",
      "failed to validate partition filters: overlapping intervals",
      "failed to parse filter expression: illegal base64 data" }
    \cup
    { "failed to parse modified " \o when \o " date: " \o why :
        when \in {"before", "after"},
        why \in { "unknown time format: %s",
                  "failed to parse time %s: parsing time %q: month out of range" } }

\* C19: whenever assembly fails, newBackupConfig returns a nil config and
\* NewBackupConfigs returns nil for both configs together with the error,
\* and the error carries a context prefix;
\* a malformed rack list, partition or digest filter, filter expression or
\* modified-before/after string makes it fail, and no config is returned
\* next to an error.
C19_NoPartialConfig ==
    /\ (call = "newBackupConfig" /\ pc = "done" /\ ret # Panic) =>
           /\ err # Nil => (ret = NilPtr /\ err.msg \in AssemblyFailures)
           /\ err = Nil => ret # NilPtr
           /\ Malformed(params.Backup) <=> err # Nil
    /\ (Returned /\ params.Backup # NilPtr) =>
        /\ err # Nil =>
               /\ ret.backupConfig = NilPtr
               /\ ret.backupXDRConfig = NilPtr
               /\ \E m \in AssemblyFailures :
                      err.msg = "failed to map backup config: " \o m
        /\ err = Nil => ret.backupConfig # NilPtr
        /\ Malformed(params.Backup) <=> err # Nil
        /\ ( /\ params.Backup.ModifiedBefore \in MalformedTimes
             /\ params.Backup.RackList = <<>>
             /\ params.Backup.AfterDigest = ""
             /\ params.Backup.PartitionList = ""
             /\ params.Backup.FilterExpression = "" )
               => \E why \in {"unknown time format: %s",
                              "failed to parse time %s: parsing time %q: month out of range"} :
                      err.msg = "failed to map backup config: "
                                  \o "failed to parse modified before date: " \o why

\* The modified-before string "invalid-date" made the assembly fail with no
\* config.
C19_Witness ==
    /\ Returned
    /\ params.Backup # NilPtr
    /\ params.Backup.ModifiedBefore = <<105, 110, 118, 97, 108, 105, 100, 45, 100, 97, 116, 101>>
    /\ ret = [backupConfig |-> NilPtr, backupXDRConfig |-> NilPtr]
    /\ err.msg = "failed to map backup config: failed to parse modified before date: unknown time format: %s"

----------------------------------------------------------------------------
(* Properties of Backup.ScanPolicy                                         *)

ScanPolicyDone == call = "Backup.ScanPolicy" /\ pc = "done"

\* C18: the replica policy of the scan policy is MASTER if rack-list or
\* node-list is set, also when prefer-racks is set as well; otherwise
\* PREFER_RACK if prefer-racks is set; otherwise the library default.
C18_ReplicaRouting ==
    (ScanPolicyDone /\ err = Nil) =>
        ret.ReplicaPolicy =
            IF params.RackList # <<>> \/ params.NodeList # <<>> THEN "MASTER"
            ELSE IF params.PreferRacks # "" THEN "PREFER_RACK"
            ELSE "library default"

\* Prefer-racks and a rack list were both set and the policy is MASTER.
C18_Witness ==
    /\ ScanPolicyDone
    /\ err = Nil
    /\ params.PreferRacks # ""
    /\ params.RackList # <<>>
    /\ ret.ReplicaPolicy = "MASTER"

----------------------------------------------------------------------------
(* Properties of the merge of flags, config file and defaults              *)

MergeDone == call = "Merge" /\ pc = "done"

\* The Default Catalog constant of each option that has one; a list option
\* starts empty.
CatalogOf ==
    [ Directory |-> "DefaultCommonDirectory",
      Namespace |-> "DefaultCommonNamespace",
      Parallel |-> "DefaultRestoreParallel",
      NoRecords |-> "DefaultCommonNoRecords",
      NoIndexes |-> "DefaultCommonNoIndexes",
      NoUDFs |-> "DefaultCommonNoUDFs",
      RecordsPerSecond |-> "DefaultCommonRecordsPerSecond",
      TotalTimeout |-> "DefaultRestoreTotalTimeout",
      SocketTimeout |-> "DefaultCommonSocketTimeout",
      Bandwidth |-> "DefaultCommonBandwidth",
      InputFile |-> "DefaultRestoreInputFile",
      ParentDirectory |-> "DefaultRestoreParentDirectory",
      DisableBatchWrites |-> "DefaultRestoreDisableBatchWrites",
      BatchSize |-> "DefaultRestoreBatchSize",
      MaxAsyncBatches |-> "DefaultRestoreMaxAsyncBatches",
      WarmUp |-> "DefaultRestoreWarmUp",
      ExtraTTL |-> "DefaultRestoreExtraTTL",
      IgnoreRecordError |-> "DefaultRestoreIgnoreRecordError",
      Uniq |-> "DefaultRestoreUniq",
      Replace |-> "DefaultRestoreReplace",
      NoGeneration |-> "DefaultRestoreNoGeneration",
      RetryBaseInterval |-> "DefaultRestoreRetryBaseInterval",
      RetryMultiplier |-> "DefaultRestoreRetryMultiplier",
      RetryMaxAttempts |-> "DefaultRestoreRetryMaxAttempts",
      ValidateOnly |-> "DefaultRestoreValidateOnly",
      InfoTimeout |-> "DefaultCommonInfoTimeout",
      InfoMaxRetries |-> "DefaultCommonInfoMaxRetries",
      InfoRetriesMultiplier |-> "DefaultCommonInfoRetriesMultiplier",
      InfoRetryIntervalMilliseconds |-> "DefaultCommonInfoRetryInterval",
      ApplyMetadataLast |-> "DefaultRestoreApplyMetadataLast",
      StdBufferSize |-> "DefaultCommonStdBufferSize" ]

CatalogDefault(o) ==
    IF o \in ListOptions THEN "" ELSE DefaultCatalog[CatalogOf[o]]

\* The value the file gives option o, a list as the flag would hold it.
FileValue(o) ==
    LET v == params.Config[o] IN
    IF o \in ListOptions
    THEN (IF v = <<>> THEN "" ELSE IF v = <<"a", "b">> THEN "a,b" ELSE "?")
    ELSE v

\* The file sets option o.
FileSets(o) == params.Config # NilPtr /\ o \in DOMAIN params.Config

----------------------------------------------------------------------------
(* Properties of parseLocalTimeToUTC                                       *)

ParseTimeDone == call = "parseLocalTimeToUTC" /\ pc = "done"

\* s holds digits at the places of D and the byte sep[i] at every other
\* place i.
HasShape(s, n, D, sep) ==
    /\ Len(s) = n
    /\ \A i \in 1..n : IF i \in D THEN s[i] \in 48..57 ELSE s[i] = sep[i]

\* YYYY-MM-DD_HH:MM:SS, HH:MM:SS and YYYY-MM-DD.
IsFullDateTime(s) ==
    HasShape(s, 19, (1..19) \ {5, 8, 11, 14, 17},
             (5 :> 45) @@ (8 :> 45) @@ (11 :> 95) @@ (14 :> 58) @@ (17 :> 58))

IsClock(s) == HasShape(s, 8, (1..8) \ {3, 6}, (3 :> 58) @@ (6 :> 58))

IsDate(s) == HasShape(s, 10, (1..10) \ {5, 8}, (5 :> 45) @@ (8 :> 45))

\* The number written at places i..j of s.
Num(s, i, j) ==
    LET RECURSIVE val(_)
        val(k) == IF k < i THEN 0 ELSE val(k - 1) * 10 + (s[k] - 48)
    IN val(j)

\* The date and the clock time that a string of a known format denotes on
\* the day `today`.
Denoted(s, today) ==
    LET date == IF IsClock(s) THEN today
                ELSE <<Num(s, 1, 4), Num(s, 6, 7), Num(s, 9, 10)>>
        k == IF IsFullDateTime(s) THEN 11 ELSE 0
        clock == IF IsDate(s) THEN <<0, 0, 0>>
                 ELSE <<Num(s, k + 1, k + 2), Num(s, k + 4, k + 5), Num(s, k + 7, k + 8)>>
    IN [Year |-> date[1], Month |-> date[2], Day |-> date[3],
        Hour |-> clock[1], Min |-> clock[2], Sec |-> clock[3]]

\* t is a date of the calendar and a time of the day.
ValidDateTime(t) ==
    /\ t.Month \in 1..12
    /\ t.Day >= 1
    /\ t.Day <= (CASE t.Month \in {4, 6, 9, 11} -> 30
                   [] t.Month = 2 ->
                        (IF t.Year % 4 = 0 /\ (t.Year % 100 # 0 \/ t.Year % 400 = 0)
                         THEN 29 ELSE 28)
                   [] OTHER -> 31)
    /\ t.Hour <= 23 /\ t.Min <= 59 /\ t.Sec <= 59

\* "failed to parse time %s: " is how msg begins.
FailedToParseTime(msg) ==
    /\ Len(msg) >= 25
    /\ SubSeq(msg, 1, 25) = "failed to parse time %s: "

\* C21: a full datetime is taken as it is, a time-only string gets today's
\* local date and a date-only string midnight; a string of none of the
\* three formats fails with "unknown time format", one of a known format
\* that denotes no valid date and time fails with "failed to parse time",
\* and every failure returns the zero time.
C21_TimeClassification ==
    ParseTimeDone =>
        LET s == params.timeString
            known == IsFullDateTime(s) \/ IsClock(s) \/ IsDate(s)
        IN /\ ~known =>
                  /\ err.msg = "unknown time format: %s"
                  /\ err.arg = <<s>>
                  /\ ret = NilPtr
           /\ (known /\ ~ValidDateTime(Denoted(s, params.today))) =>
                  /\ err # Nil
                  /\ FailedToParseTime(err.msg)
                  /\ err.arg[1] = s
                  /\ ret = NilPtr
           /\ (known /\ ValidDateTime(Denoted(s, params.today))) =>
                  /\ err = Nil
                  /\ ret = Denoted(s, params.today)

\* "25:00:00" on a valid date failed with "failed to parse time" and the
\* zero time.
C21_Witness ==
    /\ ParseTimeDone
    /\ params.timeString = <<50, 48, 50, 51, 45, 48, 57, 45, 48, 49, 95, 50, 53, 58, 48, 48, 58, 48, 48>>
    /\ FailedToParseTime(err.msg)
    /\ ret = NilPtr

----------------------------------------------------------------------------
(* Properties of Validate on an absent option group                        *)

ValidateDone == call = "Validate" /\ pc = "done"

\* C22: for every option group, Validate on a nil receiver returns success:
\* no error and no crash.
C22_NilReceiverValidates ==
    (ValidateDone /\ params.receiver = NilPtr) => (ret # Panic /\ err = Nil)

----------------------------------------------------------------------------
(* Properties of secret resolution                                         *)

SecretsDone == call \in {"PreRun", "PreRunGetSecret", "resolveSecretFields"} /\ pc = "done"

\* The value of the i-th flag or field before the call; <<>> for a nil field.
ValueBefore(i) ==
    IF call # "resolveSecretFields" THEN params[i]
    ELSE IF params[i] = NilPtr THEN <<>> ELSE params[i].ptr

\* The positions of the flags or fields the resolver was called for.
Resolved == { ret.calls[k][1] : k \in DOMAIN ret.calls }

\* The position the call stopped at: the last one, or the one that failed.
StoppedAt == IF err = Nil THEN Len(params) ELSE ret.calls[Len(ret.calls)][1]

\* C23 as stated: the resolver is called only for values that begin with
\* "secrets:"; nil, empty and other values cause no call and are left
\* unchanged, by PreRun and by resolveSecretFields.
C23_ResolverOnlyForPrefixed ==
    SecretsDone =>
        \A i \in DOMAIN params :
            ~HasPrefix(ValueBefore(i), secretsPrefix) =>
                (i \notin Resolved /\ ret.values[i] = params[i])

\* C23: resolveSecretFields calls the resolver for exactly the fields that
\* begin with "secrets:", and PreRun for exactly the flags that do so once
\* trimmed, handing over the trimmed value; the PreRun that resolves with
\* GetSecret hands over every value.  Each up to the first failure, and a
\* value without the prefix (trimmed, for PreRun) is left unchanged.
C23_ResolverCalls ==
    SecretsDone =>
        LET Handed(i) == IF call = "PreRun" THEN TrimSpace(ValueBefore(i)) ELSE ValueBefore(i)
            Called(i) == \/ call = "PreRunGetSecret"
                         \/ HasPrefix(Handed(i), secretsPrefix)
        IN /\ Resolved = { i \in 1..StoppedAt : Called(i) }
           /\ \A k \in DOMAIN ret.calls : ret.calls[k][2] = Handed(ret.calls[k][1])
           /\ \A i \in DOMAIN params :
                  ~HasPrefix(Handed(i), secretsPrefix) => ret.values[i] = params[i]

\* PreRun resolved a reference that follows a space and left a plain value
\* as it was.
C23_Witness ==
    /\ SecretsDone /\ call = "PreRun" /\ err = Nil
    /\ \E i, j \in DOMAIN params :
           /\ params[i] = <<32>> \o KnownSecret /\ ret.values[i] = ResolvedSecret
           /\ i \in Resolved
           /\ params[j] = <<97>> /\ ret.values[j] = <<97>> /\ j \notin Resolved

\* C24 as stated: a failed resolution returns an error wrapped with the
\* name of the flag or field, nothing after it is resolved, and the failing
\* flag or field keeps its value.
C24_FailureNamesFlagOrField ==
    (SecretsDone /\ err # Nil) =>
        /\ DOMAIN err.arg[1] = {"name"}
        /\ \A i \in StoppedAt..Len(params) : ret.values[i] = params[i]

\* C24: a failed resolution returns the resolver's error wrapped, by PreRun
\* with the name of the flag and by resolveSecretFields with the quoted
\* value of the field; nothing after it is resolved, and the failing flag
\* or field and those after it keep their values.
C24_FailureStops ==
    (SecretsDone /\ err # Nil) =>
        LET f == StoppedAt
            e == ParseSecret(ret.calls[Len(ret.calls)][2]).err
        IN /\ e # Nil
           /\ call = "PreRun" =>
                  err = Wrap("failed to get secret for %s",
                             [e EXCEPT !.arg = <<[name |-> flagsToPreload[f]]>>])
           /\ call = "PreRunGetSecret" =>
                  err = Wrap("failed to get secret for %s",
                             [e EXCEPT !.arg = <<[name |-> flagsToPreloadGetSecret[f]]>>])
           /\ call = "resolveSecretFields" =>
                  err = Wrap("failed to resolve secret %q",
                             [e EXCEPT !.arg = <<[value |-> params[f].ptr]>>])
           /\ \A i \in f..Len(params) : ret.values[i] = params[i]
           /\ \A k \in DOMAIN ret.calls : ret.calls[k][1] <= f

\* resolveSecretFields failed at a field that a resolvable reference
\* follows.
C24_Witness ==
    /\ SecretsDone /\ call = "resolveSecretFields" /\ err # Nil
    /\ \E i \in DOMAIN params :
           /\ i > StoppedAt
           /\ params[i] = New(KnownSecret) /\ ret.values[i] = New(KnownSecret)

----------------------------------------------------------------------------
(* Properties of the option models across assembly                         *)

Assembled == call = "Assemble" /\ pc \in {"once", "done"}

----------------------------------------------------------------------------
(* Properties of the lists validatePartitionFilters accepts                *)

\* C26: in a list that validatePartitionFilters accepts no partition is
\* selected by two different filters, be they two point filters, two ranges
\* or a point filter and a range; in particular the begin values are
\* unique across all filters.
C26_AcceptedFiltersDisjoint ==
    (FiltersDone /\ err = Nil) =>
        \A i, j \in DOMAIN partitionFilters :
            i # j =>
                /\ Partitions(partitionFilters[i]) \cap Partitions(partitionFilters[j]) = {}
                /\ partitionFilters[i].Begin # partitionFilters[j].Begin

----------------------------------------------------------------------------
(* Properties of deferredCertValue                                         *)

\* What a call of Set with the value last set did to the wrapper.
SetStep ==
    LET val == params'[Len(params')]
    IN /\ HasPrefix(val, secretsPrefix) =>
              /\ ret'.delegated = ret.delegated
              /\ ret'.original = ret.original
              /\ ret'.pendingSecret
              /\ String(ret') = val
       /\ (~HasPrefix(val, secretsPrefix) /\ ret.pendingSecret) =>
              /\ ret'.delegated = ret.delegated
              /\ ret'.original = val
              /\ ~ret'.pendingSecret
              /\ String(ret') = ret'.original
       /\ (~HasPrefix(val, secretsPrefix) /\ ~ret.pendingSecret) =>
              /\ ret'.delegated = Append(ret.delegated, val)
              /\ ret'.original = CertFlagSet(ret.original, val).original
              /\ ~ret'.pendingSecret

\* C27: in every sequence of Set calls a value that starts with "secrets:"
\* is not handed to CertFlag.Set and leaves the wrapper pending, String()
\* returning the reference; the first other value set while pending is
\* stored as the certificate without CertFlag.Set and ends the pending
\* state, String() returning the value of the wrapped flag; another value
\* set while not pending is handed to CertFlag.Set.  pendingSecret is true
\* exactly when raw is not empty.
C27_DeferredSet ==
    /\ [][call = "deferredCertValue.Set" => SetStep]_vars
    /\ [](call = "deferredCertValue.Set" =>
              /\ ret.pendingSecret <=> ret.raw # <<>>
              /\ \A k \in DOMAIN ret.delegated : ~HasPrefix(ret.delegated[k], secretsPrefix))

\* A reference was set, then the certificate it resolved to, then the path
\* of a file.
C27_Witness ==
    /\ call = "deferredCertValue.Set"
    /\ Len(params) = 3
    /\ HasPrefix(params[1], secretsPrefix)
    /\ params[2] = <<80>>
    /\ params[3] = CertPath
    /\ ret.delegated = <<CertPath>>
    /\ ret.original = CertContent

----------------------------------------------------------------------------
(* Properties of the assembler on absent option groups                     *)

\* C28: whichever of Backup, BackupXDR and SecretAgent are present,
\* NewBackupConfigs completes with a regular config or an error: it never
\* dereferences an absent option group.
C28_NoAbsentGroupDereferenced ==
    Assembled =>
        /\ ret.first.out # Panic
        /\ ret.first.out.err = Nil => ret.first.out.backupConfig # NilPtr

----------------------------------------------------------------------------
(* Properties of the derived predicates                                    *)

TargetDone == call \in {"ShouldClearTarget", "ShouldSaveState", "IsContinue"} /\ pc = "done"

\* C29: for a Backup with a non-empty Continue, ShouldClearTarget() is
\* false and ShouldSaveState() is true whatever RemoveFiles and
\* RemoveArtifacts are, and IsContinue() is true.
C29_ResumedBackupKeepsTarget ==
    (TargetDone /\ params.Backup # NilPtr) =>
        (params.Backup.Continue # "" =>
            /\ call = "ShouldClearTarget" => ret = FALSE
            /\ call = "ShouldSaveState" => ret = TRUE
            /\ call = "IsContinue" => ret = TRUE)

\* ShouldClearTarget was asked about a resumed backup that removes files.
C29_Witness ==
    /\ TargetDone /\ call = "ShouldClearTarget"
    /\ params.Backup.Continue # ""
    /\ params.Backup.RemoveFiles
    /\ ret = FALSE

----------------------------------------------------------------------------
(* Properties of logging Config.Validate                                   *)

LoggingDone == call = "logging.Config.Validate" /\ pc = "done"

\* C30: Validate succeeds with the default level "info" when Level is
\* empty or white space, succeeds when Level is debug, info, warn or error
\* in any letter case and with white space around, and fails otherwise;
\* after a successful Validate Level is one of the four lowercase levels.
C30_LogLevelVerdict ==
    LoggingDone =>
        LET lvl == ToLower(TrimSpace(params.Level))
        IN /\ lvl = <<>> => (err = Nil /\ ret.Level = defaultLogLevel)
           /\ lvl \in validLevelStrings => err = Nil
           /\ (lvl # <<>> /\ lvl \notin validLevelStrings) => err # Nil
           /\ err = Nil => ret.Level \in validLevelStrings

====
